---- MODULE Spec2Model ----
(***************************************************************************)
(* A model of the surround-view image processor (src/src/ImageProcessor.cpp):*)
(* the calibration store (intrinsic and extrinsic maps), the thread-pool   *)
(* flag, and the surround-view entry points createSurroundView,            *)
(* createSurroundViewParallel (with its four per-camera tasks, its join    *)
(* and its resize tasks) and createCylindricalSurroundView.                *)
(*                                                                         *)
(* Frames are abstract: a frame records the camera it comes from, what its *)
(* pixels do to the vision backend, and the stages applied to it so far.   *)
(***************************************************************************)
EXTENDS Integers, Sequences, FiniteSets, TLC

\* The four declared cameras, and one name the program never declares.
Cameras == {"front", "left", "right", "back"}
Undeclared == "aux"
Names == Cameras \cup {Undeclared}
\* The names the public calibration calls are made with after construction.
OpNames == {"front", "left", Undeclared}

\* ---------------------------------------------------------------- bounds
\* Rows of camera_extrinsics.csv after the header line.
MaxRows == 2
\* Public calibration calls made after construction (SpecCalib).
MaxOps == 2

\* ------------------------------------------------------------- constants
\* xi is kept in tenths: 5 stands for 0.5.
XiThreshold == 5
XiValues == {5, 6}
\* tokens.size() >= 7
MinTokens == 7

VARIABLES
    lifecycle,              \* "unconstructed", "alive", "ctor_threw"
    cameraMatrices,         \* std::map<std::string, cv::Mat>
    distortionCoeffs,       \* std::map<std::string, cv::Mat>
    xiParams,               \* std::map<std::string, double>, in tenths
    scaleXY,                \* std::map<std::string, cv::Point2f>
    shiftXY,                \* std::map<std::string, cv::Point2f>
    cameraPositions,        \* std::map<std::string, cv::Vec3f>
    cameraRotations,        \* std::map<std::string, cv::Vec3f>
    extrinsicMatrices,      \* std::map<std::string, cv::Mat>
    m_threadPoolInitialized,
    lastCall,               \* the last public calibration call and what it gave
    calBefore,              \* the maps as they were when the call in progress (or last call) began
    nOps,                   \* public calibration calls made since construction
    pc,                     \* where the calling thread is in a surround-view call
    entry,                  \* the entry point in progress
    frames,                 \* the four input frames of the call
    taskpc,                 \* per camera: where processImageAsync is
    chan,                   \* per camera: the promise/future shared state
    joinIdx,                \* how many futures the join has taken
    undistorted,            \* per camera: the task's local `undistorted`
    processed,              \* processedFront, processedLeft, processedRight, processedBack
    resizepc,               \* per camera: the resize task
    retVal,                 \* the value the call is about to return
    result,                 \* what the caller received
    threw,                  \* an exception escaped to the caller
    tasksLaunched,          \* per-camera tasks launched by the call
    undistortCalls,         \* undistortWithYAMLParams calls made by the call
    m_fov,                  \* Camera::m_fov, in tenths of a degree
    lastScroll,             \* the last processMouseScroll call: m_fov before it and its yoffset
    stageOutcome,           \* what the vision backend did outside undistortion in the call
    pixel,                  \* the last canvas pixel the cylindrical compositor computed
    gapFill,                \* totalWeights and result after step 7 of createSeamlessSurroundView
    proj,                   \* the last destination pixel projectToCylindrical computed
    render,                 \* main(): the sequences, the frame index, the last loop iteration
    renderer,               \* the Renderer3D object of main(): window, texture, releases
    crop,                   \* one call of applyCameraSpecificCropping: input and rectangle
    car                     \* one canvas pixel near the vehicle placeholder: drawn, in the ring

intrVars == <<cameraMatrices, distortionCoeffs, xiParams, scaleXY, shiftXY>>
extrVars == <<cameraPositions, cameraRotations, extrinsicMatrices>>
callVars == <<lastCall, calBefore, nOps>>
pipeVars == <<pc, entry, frames, taskpc, chan, joinIdx, undistorted, processed, resizepc,
              retVal, result, threw, tasksLaunched, undistortCalls>>
camVars == <<m_fov, lastScroll>>
auxVars == <<camVars, pixel, gapFill, proj, render, renderer, crop, car>>
auxExceptCam == <<pixel, gapFill, proj, render, renderer, crop, car>>
auxExceptPixel == <<camVars, gapFill, proj, render, renderer, crop, car>>
auxExceptGapFill == <<camVars, pixel, proj, render, renderer, crop, car>>
auxExceptProj == <<camVars, pixel, gapFill, render, renderer, crop, car>>
auxExceptMain == <<camVars, pixel, gapFill, proj, crop, car>>
auxExceptCrop == <<camVars, pixel, gapFill, proj, render, renderer, car>>
auxExceptCar == <<camVars, pixel, gapFill, proj, render, renderer, crop>>
fnVars == <<auxVars, stageOutcome>>
baseVars == <<lifecycle, intrVars, extrVars, m_threadPoolInitialized, callVars, pipeVars,
              stageOutcome>>
vars == <<lifecycle, intrVars, extrVars, m_threadPoolInitialized, callVars, pipeVars, fnVars>>

\* ------------------------------------------------------------ std::map
EmptyMap == <<>>

\* std::map::operator[] as an lvalue read: inserts a value-initialized entry
\* when the key is absent.
Subscript(m, k, dflt) == IF k \in DOMAIN m THEN m ELSE m @@ (k :> dflt)

\* m[k] = v
Store(m, k, v) == IF k \in DOMAIN m THEN [m EXCEPT ![k] = v] ELSE m @@ (k :> v)

\* The five intrinsic maps as one value.
Intr == [cameraMatrices |-> cameraMatrices, distortionCoeffs |-> distortionCoeffs,
         xiParams |-> xiParams, scaleXY |-> scaleXY, shiftXY |-> shiftXY]

\* The three extrinsic maps as one value.
Extr == [cameraPositions |-> cameraPositions, cameraRotations |-> cameraRotations,
         extrinsicMatrices |-> extrinsicMatrices]

NoIntr == [cameraMatrices |-> EmptyMap, distortionCoeffs |-> EmptyMap,
           xiParams |-> EmptyMap, scaleXY |-> EmptyMap, shiftXY |-> EmptyMap]

NoExtr == [cameraPositions |-> EmptyMap, cameraRotations |-> EmptyMap,
           extrinsicMatrices |-> EmptyMap]

\* ------------------------------------------------ camera_intrinsics.yml
\* What a call finds on disk: no candidate path opens, or a file whose K, D
\* and xi nodes are each absent, readable, or unreadable (the read throws
\* cv::Exception). xi is read only once K and D have been read, so the files
\* differ in xi only where K and D are readable.
NodeStates == {"absent", "ok", "malformed"}
\* The matrices the file holds, and cv::Mat(), which operator[] inserts for
\* an absent key.
KMat == <<"K", 1>>
DMat == <<"D", 1>>
EmptyMat == <<"empty", 0>>
YamlFiles == {[open |-> FALSE, K |-> "absent", D |-> "absent", xi |-> "absent", xiVal |-> 0]}
             \cup [open : {TRUE}, K : NodeStates, D : NodeStates, xi : {"absent"}, xiVal : {0}]
             \cup [open : {TRUE}, K : {"ok"}, D : {"ok"}, xi : {"malformed"}, xiVal : {0}]
             \cup [open : {TRUE}, K : {"ok"}, D : {"ok"}, xi : {"ok"}, xiVal : XiValues]

\* loadCameraParameters(cameraName) on the file `y`, from the maps `cal`:
\* the returned bool and the maps afterwards.
MutLoadStoresBeforeDCheck(cameraName, y, cal) ==
    IF ~y.open THEN [ret |-> FALSE, cal |-> cal]
    ELSE IF y.K # "ok" THEN [ret |-> FALSE, cal |-> cal]
    ELSE LET c1 == [cal EXCEPT !.cameraMatrices = Store(@, cameraName, KMat)] IN
         IF y.D # "ok" THEN [ret |-> FALSE, cal |-> c1]
         ELSE IF y.xi = "malformed" THEN [ret |-> FALSE, cal |-> c1]
         ELSE [ret |-> TRUE,
               cal |-> [cameraMatrices |-> c1.cameraMatrices,
                        distortionCoeffs |-> Store(cal.distortionCoeffs, cameraName, DMat),
                        xiParams |-> Store(cal.xiParams, cameraName,
                                           IF y.xi = "absent" THEN 0 ELSE y.xiVal),
                        scaleXY |-> Store(cal.scaleXY, cameraName, <<1, 1>>),
                        shiftXY |-> Store(cal.shiftXY, cameraName, <<0, 0>>)]]

MutLoadRejectsUndeclared(cameraName, y, cal) ==
    IF cameraName \notin Cameras \/ ~y.open \/ y.K # "ok" \/ y.D # "ok" \/ y.xi = "malformed"
    THEN [ret |-> FALSE, cal |-> cal]
    ELSE [ret |-> TRUE,
          cal |-> [cameraMatrices |-> Store(cal.cameraMatrices, cameraName, KMat),
                   distortionCoeffs |-> Store(cal.distortionCoeffs, cameraName, DMat),
                   xiParams |-> Store(cal.xiParams, cameraName,
                                      IF y.xi = "absent" THEN 0 ELSE y.xiVal),
                   scaleXY |-> Store(cal.scaleXY, cameraName, <<1, 1>>),
                   shiftXY |-> Store(cal.shiftXY, cameraName, <<0, 0>>)]]

\* The load without the default scale and shift entries.
MutLoadOmitsDefaults(cameraName, y, cal) ==
    IF ~y.open \/ y.K # "ok" \/ y.D # "ok" \/ y.xi = "malformed"
    THEN [ret |-> FALSE, cal |-> cal]
    ELSE [ret |-> TRUE,
          cal |-> [cameraMatrices |-> Store(cal.cameraMatrices, cameraName, KMat),
                   distortionCoeffs |-> Store(cal.distortionCoeffs, cameraName, DMat),
                   xiParams |-> Store(cal.xiParams, cameraName,
                                      IF y.xi = "absent" THEN 0 ELSE y.xiVal),
                   scaleXY |-> cal.scaleXY,
                   shiftXY |-> cal.shiftXY]]

loadCameraParametersOp(cameraName, y, cal) ==
    IF ~y.open THEN [ret |-> FALSE, cal |-> cal]            \* !fileFound
    ELSE IF y.K = "malformed" THEN [ret |-> FALSE, cal |-> cal]   \* catch (cv::Exception)
    ELSE IF y.K = "absent" THEN [ret |-> FALSE, cal |-> cal]      \* cameraMatrix.empty()
    ELSE IF y.D = "malformed" THEN [ret |-> FALSE, cal |-> cal]
    ELSE IF y.D = "absent" THEN [ret |-> FALSE, cal |-> cal]      \* distCoeffs.empty()
    ELSE IF y.xi = "malformed" THEN [ret |-> FALSE, cal |-> cal]
    ELSE LET xi == IF y.xi = "absent" THEN 0 ELSE y.xiVal IN
         [ret |-> TRUE,
          cal |-> [cameraMatrices |-> Store(cal.cameraMatrices, cameraName, KMat),
                   distortionCoeffs |-> Store(cal.distortionCoeffs, cameraName, DMat),
                   xiParams |-> Store(cal.xiParams, cameraName, xi),
                   scaleXY |-> Store(cal.scaleXY, cameraName, <<1, 1>>),
                   shiftXY |-> Store(cal.shiftXY, cameraName, <<0, 0>>)]]

\* ------------------------------------------------- camera_extrinsics.csv
\* A data row is well formed ("ok": at least MinTokens tokens, the six after
\* the name all numbers), too short ("short", "short_nan": fewer tokens,
\* numeric or not), or long enough with a field std::stof cannot convert
\* ("nan"). Pose 1 is a position and a rotation that are not all zero, so
\* its transform is not the identity.
CsvNames == {"front", Undeclared}
Poses == {1}
CsvRows == [kind : {"ok"}, name : CsvNames, pose : Poses]
           \cup [kind : {"short", "short_nan", "nan"}, name : {"front"}, pose : {1}]

RECURSIVE SeqsUpTo(_, _)
SeqsUpTo(S, n) ==
    IF n = 0 THEN {<<>>}
    ELSE LET shorter == SeqsUpTo(S, n - 1) IN
         shorter \cup {Append(q, x) : q \in {r \in shorter : Len(r) = n - 1}, x \in S}

CsvFiles == {[open |-> FALSE, rows |-> <<>>]}
            \cup [open : {TRUE}, rows : SeqsUpTo(CsvRows, MaxRows)]

\* tokens.size() of a row.
TokenCount(row) == IF row.kind \in {"short", "short_nan"} THEN MinTokens - 1 ELSE MinTokens

\* Whether std::stof converts every one of tokens[1..6].
AllNumeric(row) == row.kind \in {"ok", "short"}

\* cv::Mat::eye(4, 4, CV_32F), and the 4x4 transform built from a row: the
\* rotation R_z * R_y * R_x with the translation in the last column.
Eye4 == <<"M", 0>>
BuildExtrinsic(pose) == <<"M", pose>>

\* One iteration of the while (std::getline(file, line)) loop.
loadExtrinsicRow(row, ext) ==
    IF TokenCount(row) >= MinTokens
    THEN IF ~AllNumeric(row)
         THEN [threw |-> TRUE, ext |-> ext]       \* std::stof throws std::invalid_argument
         ELSE [threw |-> FALSE,
               ext |-> [cameraPositions |-> Store(ext.cameraPositions, row.name, <<"pos", row.pose>>),
                        cameraRotations |-> Store(ext.cameraRotations, row.name, <<"rot", row.pose>>),
                        extrinsicMatrices |-> Store(ext.extrinsicMatrices, row.name,
                                                    BuildExtrinsic(row.pose))]]
    ELSE [threw |-> FALSE, ext |-> ext]

\* The rows from index i on; nothing catches the exception of a row.
RECURSIVE loadExtrinsicRows(_, _, _)
loadExtrinsicRows(rows, i, ext) ==
    IF i > Len(rows) THEN [ret |-> TRUE, threw |-> FALSE, ext |-> ext]
    ELSE LET r == loadExtrinsicRow(rows[i], ext) IN
         IF r.threw THEN [ret |-> FALSE, threw |-> TRUE, ext |-> r.ext]
         ELSE loadExtrinsicRows(rows, i + 1, r.ext)

\* loadExtrinsicParameters() on the file `csv`, from the maps `ext`.
loadExtrinsicParametersOp(csv, ext) ==
    IF ~csv.open THEN [ret |-> FALSE, threw |-> FALSE, ext |-> ext]
    ELSE loadExtrinsicRows(csv.rows, 1, ext)

\* getExtrinsicMatrix(cameraName): the returned matrix and the maps afterwards.
MutGetExtrinsicSubscripts(cameraName, ext) ==
    LET m == Subscript(ext.extrinsicMatrices, cameraName, EmptyMat) IN
    [ret |-> m[cameraName], ext |-> [ext EXCEPT !.extrinsicMatrices = m]]

getExtrinsicMatrixOp(cameraName, ext) ==
    IF cameraName \in DOMAIN ext.extrinsicMatrices          \* it != end()
    THEN [ret |-> ext.extrinsicMatrices[cameraName], ext |-> ext]
    ELSE [ret |-> Eye4, ext |-> ext]

\* ------------------------------------------------------------------ frames
\* px says what the pixels of an input do: "empty" is cv::Mat(); on "ok" the
\* backend succeeds; on "dark" it succeeds with a mean luminance below the
\* threshold; on "bad" cv::undistort and cv::fisheye::undistortImage throw;
\* on "fisheye_bad" cv::fisheye::undistortImage throws and cv::undistort
\* succeeds.
NonEmptyKinds == {"ok", "dark"}
UndistortKinds == {"empty", "ok", "dark", "bad", "fisheye_bad"}
InputKinds == {"empty"} \cup NonEmptyKinds
EmptyFrame == [src |-> "none", px |-> "empty", stages |-> <<>>, size |-> <<0, 0>>]
InputFrame(c, k, sz) ==
    IF k = "empty" THEN EmptyFrame ELSE [src |-> c, px |-> k, stages |-> <<>>, size |-> sz]
\* The kinds of the four frames of a call: at most one dark frame.
Inputs == {in \in [Cameras -> InputKinds] : Cardinality({c \in Cameras : in[c] = "dark"}) <= 1}

\* The <<cols, rows>> of the four input frames of a call: four frames of one
\* size, or four of different sizes.
UniformSizes == [c \in Cameras |-> <<1280, 800>>]
MixedSizes ==
    [c \in Cameras |-> IF c = "front" THEN <<640, 480>>
                       ELSE IF c = "left" THEN <<1920, 1080>>
                       ELSE IF c = "right" THEN <<1, 1>>
                       ELSE <<300, 200>>]

\* The inputs of a call: every combination of kinds at one size, and four
\* good frames of different sizes.
InputCases ==
    {[kind |-> in, size |-> UniformSizes] : in \in Inputs}
    \cup {[kind |-> [c \in Cameras |-> "ok"], size |-> MixedSizes]}
IsEmpty(f) == f.px = "empty"
Stage(f, s) == [f EXCEPT !.stages = Append(@, s)]
Min(a, b) == IF a < b THEN a ELSE b

\* applyCameraSpecificCropping: the <<cols, rows>> of the crop rectangle,
\* static_cast<int>(dimension * percent) being (dimension * percent) \div 100.
CropSize(cameraName, size) ==
    LET width == size[1]
        height == size[2]
        Pct(v, p) == (v * p) \div 100
        cropAmount == Pct(Min(width, height), 10)
        rect == IF cameraName = "front"
                THEN <<width - Pct(width, 15) - Pct(width, 15),
                       height - Pct(height, 15) - Pct(height, 40)>>
                ELSE IF cameraName = "back"
                THEN <<width - Pct(width, 15) - Pct(width, 15),
                       height - Pct(height, 15) - Pct(height, 35)>>
                ELSE IF cameraName \in {"left", "right"}
                THEN <<width - Pct(width, 25) - Pct(width, 35),
                       height - Pct(height, 15) - Pct(height, 35)>>
                ELSE <<width - 2 * cropAmount, height - 2 * cropAmount>>
    IN IF rect[1] <= 0 \/ rect[2] <= 0 THEN size ELSE rect

applyCameraSpecificCropping(f, cameraName) ==
    [Stage(f, "crop") EXCEPT !.size = CropSize(cameraName, f.size)]

\* cv::resize(f, f, cv::Size(w, h))
Resize(f, s, w, h) == [Stage(f, s) EXCEPT !.size = <<w, h>>]

\* undistortWithYAMLParams(input, cameraName) from the maps `cal`: the
\* returned frame and the maps afterwards (operator[] may insert).
MutUndistortNoPresenceCheck(input, cameraName, cal) ==
    IF IsEmpty(input) THEN [out |-> input, cal |-> cal, focal |-> 0]
    ELSE LET c1 == [cal EXCEPT !.cameraMatrices = Subscript(@, cameraName, EmptyMat),
                               !.distortionCoeffs = Subscript(@, cameraName, EmptyMat),
                               !.xiParams = Subscript(@, cameraName, 0)]
         IN IF c1.cameraMatrices[cameraName] = EmptyMat \/ input.px # "ok"
            THEN [out |-> input, cal |-> c1, focal |-> 0]
            ELSE [out |-> Stage(Stage(input, IF c1.xiParams[cameraName] > XiThreshold
                                             THEN "undistort_fisheye"
                                             ELSE "undistort_standard"), "crop"),
                  cal |-> [c1 EXCEPT !.scaleXY = Subscript(@, cameraName, <<0, 0>>),
                                     !.shiftXY = Subscript(@, cameraName, <<0, 0>>)],
                  focal |-> 0]

\* The backend call of the try block: the stage it applies, or "throws" when
\* the cv::Exception reaches the outer catch. With xi above the threshold a
\* cv::Exception of cv::fisheye::undistortImage is caught and cv::undistort
\* runs instead.
MutFisheyeAtThreshold(px, xi) ==
    IF px = "bad" THEN "throws"
    ELSE IF xi >= XiThreshold
         THEN IF px = "fisheye_bad" THEN "undistort_fallback" ELSE "undistort_fisheye"
         ELSE "undistort_standard"

BackendStage(px, xi) ==
    IF px = "bad" THEN "throws"
    ELSE IF xi > XiThreshold
         THEN IF px = "fisheye_bad" THEN "undistort_fallback" ELSE "undistort_fisheye"
         ELSE "undistort_standard"

\* The percentage of fx and fy that newCameraMatrix keeps; the fallback
\* cv::undistort of the fisheye branch gets the same newCameraMatrix.
FisheyeFocalPercent == 45
StandardFocalPercent == 60
NewFocalPercent(xi) == IF xi > XiThreshold THEN FisheyeFocalPercent ELSE StandardFocalPercent

\* The check of the result: totalMean < 5.0 returns the input.
MutValidateKeepsResult(input, final) == [final EXCEPT !.px = "black"]

ValidateResult(input, final) == IF input.px = "dark" THEN input ELSE final

undistortWithYAMLParams(input, cameraName, cal) ==
    IF IsEmpty(input) THEN [out |-> input, cal |-> cal, focal |-> 0]
    ELSE IF cameraName \notin DOMAIN cal.cameraMatrices
            \/ cameraName \notin DOMAIN cal.distortionCoeffs
    THEN [out |-> input, cal |-> cal, focal |-> 0]                 \* parameters not loaded
    ELSE LET c1 == [cal EXCEPT !.cameraMatrices = Subscript(@, cameraName, EmptyMat),
                               !.distortionCoeffs = Subscript(@, cameraName, EmptyMat),
                               !.xiParams = Subscript(@, cameraName, 0)]
             stage == BackendStage(input.px, c1.xiParams[cameraName])
             focal == NewFocalPercent(c1.xiParams[cameraName])
         IN IF stage = "throws"
            THEN [out |-> input, cal |-> c1, focal |-> focal]          \* catch (cv::Exception): return input
            ELSE LET c2 == [c1 EXCEPT !.scaleXY = Subscript(@, cameraName, <<0, 0>>),
                                      !.shiftXY = Subscript(@, cameraName, <<0, 0>>)]
                     scale == c2.scaleXY[cameraName]
                     shift == c2.shiftXY[cameraName]
                     cropped == applyCameraSpecificCropping(Stage(input, stage), cameraName)
                 IN IF scale # <<1, 1>> \/ shift # <<0, 0>>
                    THEN IF scale[1] = 0 \/ scale[2] = 0
                         THEN [out |-> input, cal |-> c2, focal |-> focal]     \* cv::resize to an empty size throws
                         ELSE [out |-> ValidateResult(input,
                                          Resize(cropped, "scale_shift",
                                                 cropped.size[1] * scale[1],
                                                 cropped.size[2] * scale[2])),
                               cal |-> c2, focal |-> focal]
                    ELSE [out |-> ValidateResult(input, cropped), cal |-> c2,
                          focal |-> focal]

rotateImage90Clockwise(f) == [Stage(f, "rot90cw") EXCEPT !.size = <<f.size[2], f.size[1]>>]
rotateImage90CounterClockwise(f) ==
    [Stage(f, "rot90ccw") EXCEPT !.size = <<f.size[2], f.size[1]>>]
rotateImage180(f) == Stage(f, "rot180")

\* The rotations createSurroundView applies after the four undistortions.
SerialRotation(cameraName, f) ==
    IF cameraName = "left" THEN rotateImage90CounterClockwise(f)
    ELSE IF cameraName = "right" THEN rotateImage90Clockwise(f)
    ELSE IF cameraName = "back" THEN rotateImage180(f)
    ELSE f

\* The rotation processImageAsync gives a camera.
CameraRotation(cameraName, f) ==
    IF cameraName = "left" THEN rotateImage90CounterClockwise(f)
    ELSE IF cameraName = "right" THEN rotateImage90Clockwise(f)
    ELSE IF cameraName = "back" THEN rotateImage180(f)
    ELSE f

\* ------------------------------------------------------------- the layout
\* The section and canvas sizes of createSurroundView.
SerialBaseWidth == 720
SerialBaseHeight == 640
SerialFrontBackWidth == SerialBaseWidth + 120
SerialFrontBackHeight == SerialBaseHeight + 80
SerialLeftRightWidth == SerialBaseWidth
SerialLeftRightHeight == SerialBaseHeight + 160
SerialSurroundWidth == SerialFrontBackWidth + SerialLeftRightWidth * 2
SerialSurroundHeight ==
    SerialFrontBackHeight + SerialLeftRightHeight + SerialFrontBackHeight

\* The section and canvas sizes of createSurroundViewParallel.
BaseWidth == 720
BaseHeight == 640
FrontBackWidth == BaseWidth + 120
FrontBackHeight == BaseHeight + 80
LeftRightWidth == BaseWidth
LeftRightHeight == BaseHeight + 160
SurroundWidth == FrontBackWidth + LeftRightWidth * 2
SurroundHeight == FrontBackHeight + LeftRightHeight + FrontBackHeight
CylCanvasWidth == 1600
CylCanvasHeight == 800

\* The four cv::resize calls of createSurroundView.
SerialResize(cameraName, f) ==
    IF cameraName \in {"front", "back"}
    THEN Resize(f, "resize_840x720", SerialFrontBackWidth, SerialFrontBackHeight)
    ELSE Resize(f, "resize_720x800", SerialLeftRightWidth, SerialLeftRightHeight)

\* The cv::resize of a resize task of createSurroundViewParallel.
ResizeToSection(cameraName, f) ==
    IF cameraName \in {"front", "back"}
    THEN Resize(f, "resize_840x720", FrontBackWidth, FrontBackHeight)
    ELSE Resize(f, "resize_720x800", LeftRightWidth, LeftRightHeight)

\* What a surround-view call returns: cv::Mat(), or a canvas with the frame
\* copied to each camera's region and the set of things drawn over it.
EmptyResult == [kind |-> "empty"]
NoResult == [kind |-> "none"]
Canvas(w, h, compositor, tiles, draw) ==
    [kind |-> "canvas", w |-> w, h |-> h, compositor |-> compositor,
     tiles |-> tiles, draw |-> draw]

\* The composition of createSurroundViewParallel: zeros, then the four copies.
ComposeParallel(tiles) ==
    Canvas(SurroundWidth, SurroundHeight, "tiles", tiles, {})

\* The composition of createSurroundView: the four copies, then the car
\* area, the car indicator, the arrow and the borders.
SerialDrawing == {"carArea", "carIndicator", "arrow", "borders"}
MutComposeOldHeight(tiles) ==
    Canvas(SerialSurroundWidth, 1740, "tiles", tiles, SerialDrawing)

ComposeSerial(tiles) ==
    Canvas(SerialSurroundWidth, SerialSurroundHeight, "tiles", tiles, SerialDrawing)

\* ------------------------------------------------- sequential entry points
JoinOrder == <<"front", "left", "right", "back">>

\* The four undistortWithYAMLParams calls in the order front, left, right,
\* back, each from the maps the one before left: the four frames and the maps.
UndistortAll(fr, cal) ==
    LET u1 == undistortWithYAMLParams(fr["front"], "front", cal)
        u2 == undistortWithYAMLParams(fr["left"], "left", u1.cal)
        u3 == undistortWithYAMLParams(fr["right"], "right", u2.cal)
        u4 == undistortWithYAMLParams(fr["back"], "back", u3.cal)
    IN [out |-> [c \in Cameras |-> IF c = "front" THEN u1.out
                                   ELSE IF c = "left" THEN u2.out
                                   ELSE IF c = "right" THEN u3.out ELSE u4.out],
        cal |-> u4.cal]

AnyEmpty(fr) == \E c \in Cameras : IsEmpty(fr[c])

\* createSurroundView(front, left, right, back). `outcome` is what the vision
\* backend does outside undistortion: nothing ("ok"), an exception in a
\* rotation or a resize ("stage_throws", nothing catches it), or a
\* cv::Exception inside the try block of the copies ("compose_throws").
SerialOutcomes == {"ok", "stage_throws", "compose_throws"}
createSurroundViewOp(fr, cal, outcome) ==
    IF AnyEmpty(fr)
    THEN [result |-> EmptyResult, threw |-> FALSE, cal |-> cal, undistortCalls |-> 0]
    ELSE LET u == UndistortAll(fr, cal)
             tiles == [c \in Cameras |-> SerialResize(c, SerialRotation(c, u.out[c]))]
         IN IF outcome = "stage_throws"
            THEN [result |-> NoResult, threw |-> TRUE, cal |-> u.cal, undistortCalls |-> 4]
            ELSE IF outcome = "compose_throws"
            THEN [result |-> EmptyResult, threw |-> FALSE, cal |-> u.cal, undistortCalls |-> 4]
            ELSE [result |-> ComposeSerial(tiles), threw |-> FALSE, cal |-> u.cal,
                  undistortCalls |-> 4]

\* projectToCylindrical(input, cameraName, focalLength): empty for an empty
\* input, otherwise a frame of the size of the input.
MutProjectionSkipped(input) == input

projectToCylindrical(input) == IF IsEmpty(input) THEN EmptyFrame ELSE Stage(input, "cylindrical")

\* Steps 1 and 2 of createCylindricalSurroundView: the four undistortions,
\* the originals instead when an undistorted frame is empty, rotateImage180
\* of each, and the four projections.
CylProjections(fr, cal) ==
    LET u == UndistortAll(fr, cal)
        prepared == IF \E c \in Cameras : IsEmpty(u.out[c]) THEN fr ELSE u.out
    IN [c \in Cameras |-> projectToCylindrical(rotateImage180(prepared[c]))]

\* createCylindricalSurroundView(front, left, right, back). The whole body
\* after the validation is inside try { } catch (std::exception) catch (...).
CylOutcomes == {"ok", "throws"}
createCylindricalSurroundViewOp(fr, cal, outcome) ==
    IF AnyEmpty(fr)
    THEN [result |-> EmptyResult, threw |-> FALSE, cal |-> cal, undistortCalls |-> 0]
    ELSE LET u == UndistortAll(fr, cal)
             cyl == CylProjections(fr, cal)
         IN IF outcome = "throws"
            THEN [result |-> EmptyResult, threw |-> FALSE, cal |-> u.cal, undistortCalls |-> 4]
            ELSE IF \E c \in Cameras : IsEmpty(cyl[c])
            THEN [result |-> EmptyResult, threw |-> FALSE, cal |-> u.cal, undistortCalls |-> 4]
            ELSE [result |-> Canvas(CylCanvasWidth, CylCanvasHeight, "sectors", cyl, {"carRect"}),
                  threw |-> FALSE, cal |-> u.cal, undistortCalls |-> 4]

\* ------------------------------------------------------------------- Init
NoCall == [op |-> "none", name |-> "none", ok |-> FALSE, mat |-> EmptyMat,
           threw |-> FALSE, fileOk |-> FALSE, csv |-> [open |-> FALSE, rows |-> <<>>],
           input |-> EmptyFrame, out |-> EmptyFrame, focal |-> 0]

\* Whether a candidate intrinsics file opens and its K, D and xi can be read.
FileComplete(y) == y.open /\ y.K = "ok" /\ y.D = "ok" /\ y.xi # "malformed"
NoFrames == [c \in Cameras |-> EmptyFrame]
NoChan == [kind |-> "unset", frame |-> EmptyFrame]

PipeIdle ==
    /\ pc = "idle"
    /\ entry = "none"
    /\ frames = NoFrames
    /\ taskpc = [c \in Cameras |-> "none"]
    /\ chan = [c \in Cameras |-> NoChan]
    /\ joinIdx = 0
    /\ undistorted = NoFrames
    /\ processed = NoFrames
    /\ resizepc = [c \in Cameras |-> "none"]
    /\ retVal = NoResult
    /\ result = NoResult
    /\ threw = FALSE
    /\ tasksLaunched = 0
    /\ undistortCalls = 0
    /\ stageOutcome = "none"

\* ------------------------------------------- the cylindrical compositor
\* One canvas pixel of createCylindricalSurroundView. Angles are in steps of
\* 1/AngleRes degree, distances in pixels; a weight is kept as its numerator
\* over WeightDen, a colour as one channel of 0..255.
AngleRes == 2
Deg(d) == d * AngleRes
FullTurn == Deg(360)
SectorSize == 100
BlendWidth == 20
RadialBlend == 20
InnerRadius == 80
OuterRadius == 400

\* std::vector<CameraPlacement> cameras, in the order of the loop.
CameraPlacements ==
    [front |-> [startAngle |-> Deg(225), endAngle |-> Deg(315)],
     left  |-> [startAngle |-> Deg(315), endAngle |-> Deg(45)],
     back  |-> [startAngle |-> Deg(45),  endAngle |-> Deg(135)],
     right |-> [startAngle |-> Deg(135), endAngle |-> Deg(225)]]

Abs(x) == IF x < 0 THEN -x ELSE x
Clamp(x, lo, hi) == IF x < lo THEN lo ELSE IF x > hi THEN hi ELSE x

\* inSector: both ends of a sector belong to it.
MutInSectorNoWrap(cam, angle) ==
    angle >= CameraPlacements[cam].startAngle /\ angle <= CameraPlacements[cam].endAngle

InSector(cam, angle) ==
    LET c == CameraPlacements[cam]
    IN IF c.startAngle <= c.endAngle
       THEN angle >= c.startAngle /\ angle <= c.endAngle
       ELSE angle >= c.startAngle \/ angle <= c.endAngle

SectorCenter(cam) ==
    LET c == CameraPlacements[cam]
    IN IF c.startAngle <= c.endAngle
       THEN (c.startAngle + c.endAngle) \div 2
       ELSE ((c.startAngle + c.endAngle + FullTurn) \div 2) % FullTurn

AngleOffset(cam, angle) ==
    LET angleOffset == angle - SectorCenter(cam)
    IN IF angleOffset > Deg(180) THEN angleOffset - FullTurn
       ELSE IF angleOffset < -Deg(180) THEN angleOffset + FullTurn
       ELSE angleOffset

\* The blend weight from the distance to the sector centre, over BlendDen^3:
\* 1 up to sectorHalfWidth - blendWidth, then the smooth step of
\* (sectorHalfWidth - distToCenter) / blendWidth.
BlendDen == Deg(BlendWidth)
AngularDen == BlendDen * BlendDen * BlendDen
AngularWeight(distToCenter) ==
    LET sectorHalfWidth == Deg(SectorSize) \div 2
    IN IF distToCenter > sectorHalfWidth - Deg(BlendWidth)
       THEN LET w == Clamp(sectorHalfWidth - distToCenter, 0, BlendDen)
            IN w * w * (3 * BlendDen - 2 * w)
       ELSE AngularDen

\* radialWeight, over RadialBlend.
RadialWeight(distance) ==
    IF distance > OuterRadius - RadialBlend
    THEN Clamp(OuterRadius - distance, 0, RadialBlend)
    ELSE IF distance < InnerRadius + RadialBlend
    THEN Clamp(distance - InnerRadius, 0, RadialBlend)
    ELSE RadialBlend

WeightDen == AngularDen * RadialBlend

\* weight > 0.01f, totalWeight > 0.01f
AboveThreshold(w) == 100 * w > WeightDen

\* The guard of the bilinear interpolation on an image of <<cols, rows>>:
\* imgX >= 0 && imgX < cols - 1 && imgY >= 0 && imgY < rows - 1, with
\* imgX = cols * (0.5 + 0.45 * normalizedOffset) for left and right, 0.4 for
\* front and back, and imgY = rows * (0.15 + 0.7 * radialFactor) for left and
\* right, rows * (0.2 + 0.6 * radialFactor) for front and back.
Samplable(cam, angle, distance, size) ==
    LET side == cam \in {"left", "right"}
        cols == size[1]
        rows == size[2]
        xDen == 10000 * AngleRes
        imgX == cols * (5000 * AngleRes + (IF side THEN 90 ELSE 80) * AngleOffset(cam, angle))
        radialFactor == Clamp(distance - InnerRadius, 0, OuterRadius - InnerRadius)
        yDen == 100 * (OuterRadius - InnerRadius)
        imgY == rows * (IF side THEN 15 * (OuterRadius - InnerRadius) + 70 * radialFactor
                        ELSE 20 * (OuterRadius - InnerRadius) + 60 * radialFactor)
    IN /\ imgX >= 0 /\ imgX < (cols - 1) * xDen
       /\ imgY >= 0 /\ imgY < (rows - 1) * yDen

\* cv::saturate_cast<uchar>(totalColor / totalWeight): the quotient rounded
\* to the nearest integer, a tie to the even one, kept within 0..255.
MutNoNormalization(totalColor, totalWeight) == Clamp(totalColor \div WeightDen, 0, 255)

SaturateCast(totalColor, totalWeight) ==
    LET q == totalColor \div totalWeight
        r == totalColor % totalWeight
        rounded == IF 2 * r < totalWeight THEN q
                   ELSE IF 2 * r > totalWeight THEN q + 1
                   ELSE IF q % 2 = 0 THEN q ELSE q + 1
    IN Clamp(rounded, 0, 255)

\* The body of the pixel loop for a pixel at `angle` and `distance`, the four
\* projected images having the size `size` and `sample[cam]` being the
\* interpolated value of camera cam.
SectorOrder == <<"front", "left", "back", "right">>
ComposePixelOp(angle, distance, size, sample) ==
    LET inRing == distance < OuterRadius /\ distance > InnerRadius
        inSector == {cam \in Cameras : InSector(cam, angle)}
        angular == [cam \in Cameras |-> IF cam \in inSector
                                        THEN AngularWeight(Abs(AngleOffset(cam, angle)))
                                        ELSE 0]
        raw == [cam \in Cameras |-> angular[cam] * RadialWeight(distance)]
        weight == [cam \in Cameras |->
                     IF inRing /\ cam \in inSector
                        /\ Samplable(cam, angle, distance, size) /\ AboveThreshold(raw[cam])
                     THEN raw[cam] ELSE 0]
        totalWeight == weight[SectorOrder[1]] + weight[SectorOrder[2]]
                       + weight[SectorOrder[3]] + weight[SectorOrder[4]]
        totalColor == sample[SectorOrder[1]] * weight[SectorOrder[1]]
                      + sample[SectorOrder[2]] * weight[SectorOrder[2]]
                      + sample[SectorOrder[3]] * weight[SectorOrder[3]]
                      + sample[SectorOrder[4]] * weight[SectorOrder[4]]
        written == inRing /\ AboveThreshold(totalWeight)
    IN [computed |-> TRUE, angle |-> angle, distance |-> distance, size |-> size,
        sample |-> sample, inSector |-> inSector, angular |-> angular, weight |-> weight,
        totalWeight |-> totalWeight, totalColor |-> totalColor, written |-> written,
        color |-> IF written THEN SaturateCast(totalColor, totalWeight) ELSE 0]

NoPixel ==
    [computed |-> FALSE, angle |-> 0, distance |-> 0, size |-> <<0, 0>>,
     sample |-> [cam \in Cameras |-> 0], inSector |-> {}, angular |-> [cam \in Cameras |-> 0],
     weight |-> [cam \in Cameras |-> 0], totalWeight |-> 0, totalColor |-> 0,
     written |-> FALSE, color |-> 0]

SectorInit == pixel = NoPixel

\* ------------------------------ the gap filling of createSeamlessSurroundView
\* Step 7 on a small canvas: cell i is the pixel (i % canvasWidth,
\* i \div canvasWidth), a colour is one channel in hundredths, and
\* totalWeights holds whole numbers (0 where no camera contributed).
GapCanvasWidth == 18
GapCanvasHeight == 2
MaxFilled == 2
SearchRadius == 15
FillColor == 5
Cells == 0 .. GapCanvasWidth * GapCanvasHeight - 1
CellX(i) == i % GapCanvasWidth
CellY(i) == i \div GapCanvasWidth

\* totalWeight > 0.001f
Filled(totalWeights, i) == totalWeights[i] > 0

\* The cells the two search loops visit around cell i: dy and dx from
\* -searchRadius to searchRadius, inside the canvas.
Neighbourhood(i) ==
    {j \in Cells : /\ Abs(CellY(j) - CellY(i)) <= SearchRadius
                   /\ Abs(CellX(j) - CellX(i)) <= SearchRadius}

\* The search of a gap pixel: dy ascending, then dx ascending, stopping at
\* the first cell whose total weight is above the threshold; that order is
\* the order of the cell numbers.
FirstFound(totalWeights, i) ==
    LET found == {j \in Neighbourhood(i) : Filled(totalWeights, j)}
    IN IF found = {} THEN -1
       ELSE CHOOSE j \in found : \A k \in found : j <= k

\* The loop over y and x from cell i on, on `result` in place.
RECURSIVE NormalizeAndFill(_, _, _)
NormalizeAndFill(i, totalWeights, res) ==
    IF i \notin Cells THEN res
    ELSE IF Filled(totalWeights, i)
    THEN NormalizeAndFill(i + 1, totalWeights,
                          [res EXCEPT ![i] = res[i] \div totalWeights[i]])
    ELSE LET j == FirstFound(totalWeights, i)
         IN NormalizeAndFill(i + 1, totalWeights,
                             [res EXCEPT ![i] = IF j # -1 THEN res[j] ELSE FillColor])

\* The canvases of at most n cells with contributions.
RECURSIVE FilledSets(_)
FilledSets(n) ==
    IF n = 0 THEN {{}}
    ELSE LET prev == FilledSets(n - 1)
         IN prev \cup {S \cup {c} : S \in prev, c \in Cells}

\* The total weight and the colour the contributions give cell i: no two
\* cells of one colour, weights of 1 and 2.
WeightOf(i) == 1 + (i % 2)
ColorOf(i) == 10 + i

NoGapFill ==
    [done |-> FALSE, totalWeights |-> [i \in Cells |-> 0], result |-> [i \in Cells |-> 0]]

GapInit == gapFill = NoGapFill

\* ------------------------------------------------- projectToCylindrical
\* One destination pixel of projectToCylindrical. Coordinates are kept in
\* steps of 1/CoordScale pixel. What cartesianToCylindrical computes before
\* it clamps (atan2, sqrt) is not computed here: it is any coordinate from
\* below zero to beyond the image.
CoordScale == 10

\* cylX = max(0, min(center.x * 2, cylX)), and the same for cylY
ClampToImage(v, extent) == Clamp(v, 0, extent * CoordScale)

\* static_cast<int>(std::round(v)) of a coordinate that is not negative
RoundCoord(v) == (2 * v + CoordScale) \div (2 * CoordScale)

\* srcX >= 0 && srcX < input.cols && srcY >= 0 && srcY < input.rows
MutBoundsInclusive(srcX, srcY, cols, rows) ==
    srcX >= 0 /\ srcX <= cols /\ srcY >= 0 /\ srcY <= rows

InBounds(srcX, srcY, cols, rows) ==
    srcX >= 0 /\ srcX < cols /\ srcY >= 0 /\ srcY < rows

\* The value of the input at (srcX, srcY): no pixel of the input is zero.
SourcePixel(cols, srcX, srcY) == 1 + srcX + srcY * cols

\* projectToCylindrical on an input of <<cols, rows>>, for the destination
\* pixel whose coordinate before the clamp is `raw`.
ProjectPixelOp(size, raw) ==
    IF size = <<0, 0>>
    THEN [done |-> TRUE, inSize |-> size, outSize |-> <<0, 0>>, raw |-> raw,
          srcX |-> 0, srcY |-> 0, read |-> FALSE, value |-> 0]
    ELSE LET cols == size[1]
             rows == size[2]
             srcX == RoundCoord(ClampToImage(raw[1], cols))
             srcY == RoundCoord(ClampToImage(raw[2], rows))
             read == InBounds(srcX, srcY, cols, rows)
         IN [done |-> TRUE, inSize |-> size, outSize |-> size, raw |-> raw,
             srcX |-> srcX, srcY |-> srcY, read |-> read,
             value |-> IF read THEN SourcePixel(cols, srcX, srcY) ELSE 0]

NoProj ==
    [done |-> FALSE, inSize |-> <<0, 0>>, outSize |-> <<0, 0>>, raw |-> <<0, 0>>,
     srcX |-> 0, srcY |-> 0, read |-> FALSE, value |-> 0]

ProjInit == proj = NoProj

\* ------------------------------------------------------ the crop rectangle
\* static_cast<int>(v * fraction) with the fraction a double: the whole part
\* of v * percent / 100, except that a product that is a whole number may come
\* out just below it in double precision and truncate to one less (720 * 0.35
\* gives 251); slack is 1 for that outcome and 0 otherwise.
Truncated(v, percent, slack) ==
    IF (v * percent) % 100 = 0 /\ v * percent > 0
    THEN (v * percent) \div 100 - slack
    ELSE (v * percent) \div 100

Max(a, b) == IF a > b THEN a ELSE b

\* Every camera cropped as the left camera once was, with the right half and
\* the left half removed.
MutCropFractionsHalves(cameraName) == [top |-> 15, bottom |-> 35, left |-> 50, right |-> 50]

\* The fractions removed from each side, in percent, for the declared cameras.
CropFractions(cameraName) ==
    IF cameraName = "front" THEN [top |-> 15, bottom |-> 40, left |-> 15, right |-> 15]
    ELSE IF cameraName = "back" THEN [top |-> 15, bottom |-> 35, left |-> 15, right |-> 15]
    ELSE IF cameraName = "left" THEN [top |-> 15, bottom |-> 35, left |-> 25, right |-> 35]
    ELSE [top |-> 15, bottom |-> 35, left |-> 35, right |-> 25]

DefaultCropPercent == 10

\* The rectangle before and after its validation, and whether the call fell
\* back to the original image.
CropRect(cameraName, size, slack) ==
    LET width == size[1]
        height == size[2]
        f == CropFractions(cameraName)
        cropAmount == Truncated(Min(width, height), DefaultCropPercent, slack)
        raw == IF cameraName \in Cameras
               THEN [x |-> Truncated(width, f.left, slack),
                     y |-> Truncated(height, f.top, slack),
                     width |-> width - Truncated(width, f.left, slack)
                                     - Truncated(width, f.right, slack),
                     height |-> height - Truncated(height, f.top, slack)
                                       - Truncated(height, f.bottom, slack)]
               ELSE [x |-> cropAmount, y |-> cropAmount,
                     width |-> width - 2 * cropAmount,
                     height |-> height - 2 * cropAmount]
        x0 == Max(0, raw.x)
        y0 == Max(0, raw.y)
        rect == [x |-> x0, y |-> y0,
                 width |-> Min(raw.width, width - x0),
                 height |-> Min(raw.height, height - y0)]
    IN [rect |-> rect, fallback |-> rect.width <= 0 \/ rect.height <= 0]

NoCrop == [computed |-> FALSE, name |-> "front", size |-> <<0, 0>>,
           rect |-> [x |-> 0, y |-> 0, width |-> 0, height |-> 0], fallback |-> FALSE]

CropInit == crop = NoCrop

\* -------------------------------------------------- the vehicle placeholder
\* createCylindricalSurroundView draws a filled rectangle and then its outline
\* with lines 3 pixels thick at the centre of the canvas.
CarWidth == 80
CarHeight == 120
OutlineThickness == 3

\* cv::Rect carRect: its corner and its size.
CarRect == [x |-> CylCanvasWidth \div 2 - CarWidth \div 2,
            y |-> CylCanvasHeight \div 2 - CarHeight \div 2,
            width |-> CarWidth, height |-> CarHeight]

\* The rectangle is drawn only when it lies inside the canvas.
CarFits ==
    /\ CarRect.x >= 0 /\ CarRect.y >= 0
    /\ CarRect.x + CarRect.width < CylCanvasWidth
    /\ CarRect.y + CarRect.height < CylCanvasHeight

\* cv::rectangle takes the corners (x, y) and (x + width - 1, y + height - 1);
\* filled, it covers the pixels between them.
InFill(x, y) ==
    /\ x >= CarRect.x /\ x <= CarRect.x + CarRect.width - 1
    /\ y >= CarRect.y /\ y <= CarRect.y + CarRect.height - 1

\* A line of thickness t covers the pixels within t / 2 of the segment and a
\* round cap of radius (t + 1) / 2 at each end; the square of that radius
\* around every pixel of the four edges contains them all.
OutlineReach == (OutlineThickness + 1) \div 2

InOutline(x, y) ==
    LET x0 == CarRect.x
        y0 == CarRect.y
        x1 == CarRect.x + CarRect.width - 1
        y1 == CarRect.y + CarRect.height - 1
        nearX(e) == Abs(x - e) <= OutlineReach
        nearY(e) == Abs(y - e) <= OutlineReach
        withinX == x >= x0 - OutlineReach /\ x <= x1 + OutlineReach
        withinY == y >= y0 - OutlineReach /\ y <= y1 + OutlineReach
    IN \/ (nearX(x0) \/ nearX(x1)) /\ withinY
       \/ (nearY(y0) \/ nearY(y1)) /\ withinX

CarDrawn(x, y) == CarFits /\ (InFill(x, y) \/ InOutline(x, y))

\* The compositor with no inner radius.
MutRingWithoutInnerRadius(x, y) ==
    LET dx == x - CylCanvasWidth \div 2
        dy == y - CylCanvasHeight \div 2
    IN dx * dx + dy * dy < OuterRadius * OuterRadius

\* distance < 400.0f && distance > 80.0f, the distance being the square root
\* of dx * dx + dy * dy for whole dx and dy: the only pixels the compositor
\* writes.
InRing(x, y) ==
    LET dx == x - CylCanvasWidth \div 2
        dy == y - CylCanvasHeight \div 2
    IN /\ dx * dx + dy * dy < OuterRadius * OuterRadius
       /\ dx * dx + dy * dy > InnerRadius * InnerRadius

NoCar == [checked |-> FALSE, x |-> 0, y |-> 0, drawn |-> FALSE, inRing |-> FALSE]

CarInit == car = NoCar

\* ------------------------------------------------------------ the render loop
\* main() from the construction of the renderer to its return. The four
\* sequences are filled and cleared together, so one length stands for the
\* four. A first frame is readable ("ok"), missing from an existing folder
\* ("unreadable"), or in a folder that does not exist ("nofolder").
SequenceLength == 3
FirstFrameKinds == {"ok", "unreadable", "nofolder"}

\* The texture shown after a composition: the cylindrical view, else the
\* seamless view, else the processed front frame, else the front frame itself.
Shown(cyl, seamless, frontOk) ==
    IF cyl THEN "cylindrical"
    ELSE IF seamless THEN "seamless"
    ELSE IF frontOk THEN "front_processed"
    ELSE "front"

\* The loop without the test of the sequence.
MutFrameDueOnEmpty(elapsed, len) == elapsed

\* elapsed >= frameDuration && !frontSequence.empty()
FrameDue(elapsed, len) == elapsed /\ len # 0

\* The index advanced without wrapping.
MutNextIndexNoWrap(currentImageIndex, len) == currentImageIndex + 1

\* (currentImageIndex + 1) % frontSequence.size()
NextImageIndex(currentImageIndex, len) == (currentImageIndex + 1) % len

NoTick == [iterated |-> FALSE, elapsed |-> FALSE, frameTick |-> FALSE, indexBefore |-> 0,
           loaded |-> {}, loads |-> 0, composed |-> FALSE, textureUpdated |-> FALSE,
           modulo |-> FALSE]

RenderStart == [phase |-> "initialize", sequenceLength |-> SequenceLength,
                currentImageIndex |-> 0, startupFailed |-> FALSE, shown |-> "none",
                tick |-> NoTick]

RenderInit == render = RenderStart

\* The first frames and the folders decide between the stream and the fallback.
StartupOp(r, first, cyl, seamless, frontOk) ==
    IF \E c \in Cameras : first[c] # "ok"
    THEN [r EXCEPT !.phase = "loop", !.sequenceLength = 0, !.startupFailed = TRUE,
                   !.shown = "fallback"]
    ELSE [r EXCEPT !.phase = "loop", !.shown = Shown(cyl, seamless, frontOk)]

\* One iteration of the while loop whose condition was true.
IterationOp(r, elapsed, loaded, cyl, seamless, frontOk) ==
    IF FrameDue(elapsed, r.sequenceLength)
    THEN LET all == loaded = Cameras
             t == [iterated |-> TRUE, elapsed |-> elapsed, frameTick |-> TRUE,
                   indexBefore |-> r.currentImageIndex,
                   loaded |-> loaded, loads |-> Cardinality(Cameras),
                   composed |-> all, textureUpdated |-> all, modulo |-> TRUE]
         IN IF r.sequenceLength = 0
            THEN [r EXCEPT !.phase = "terminated", !.tick = t]     \* division by zero
            ELSE [r EXCEPT !.tick = t,
                           !.shown = IF all THEN Shown(cyl, seamless, frontOk) ELSE @,
                           !.currentImageIndex = NextImageIndex(@, r.sequenceLength)]
    ELSE [r EXCEPT !.tick = [NoTick EXCEPT !.iterated = TRUE, !.elapsed = elapsed]]

\* ------------------------------------------------------- the Renderer3D object
\* m_window is null or a window handle; m_textureID is 0 or a texture name.
\* The two counters record the calls that release them.
RendererStart == [m_window |-> "null", m_textureID |-> 0, cleanups |-> 0,
                  textureReleases |-> 0, windowReleases |-> 0, destroyed |-> FALSE]

RendererInit == renderer = RendererStart

\* Renderer3D::initialize: GLFW, the window, GLEW, the shaders, the texture.
InitializeOutcomes == {"no_glfw", "no_window", "no_glew", "no_shaders", "ok"}
InitializeOp(rr, outcome) ==
    IF outcome \in {"no_glfw", "no_window"} THEN rr
    ELSE IF outcome \in {"no_glew", "no_shaders"} THEN [rr EXCEPT !.m_window = "handle"]
    ELSE [rr EXCEPT !.m_window = "handle", !.m_textureID = 1]

\* Renderer3D::cleanup
CleanupOp(rr) ==
    [rr EXCEPT !.cleanups = @ + 1,
               !.textureReleases = IF rr.m_textureID # 0 THEN @ + 1 ELSE @,
               !.windowReleases = IF rr.m_window # "null" THEN @ + 1 ELSE @]

\* ------------------------------------------------------------ the 3D camera
\* The field of view is kept in tenths of a degree; a scroll offset in tenths
\* of a wheel step.
InitialFov == 1200
MinFov == 100
MaxFov == 1500
ScrollSensitivity == 2
NoScroll == [called |-> FALSE, before |-> InitialFov, yoffset |-> 0]

\* Camera::Camera: m_fov(120.0f)
CameraInit ==
    /\ m_fov = InitialFov
    /\ lastScroll = NoScroll

\* The state outside the processor.
AuxInit == CameraInit /\ SectorInit /\ GapInit /\ ProjInit /\ RenderInit /\ RendererInit /\ CropInit /\ CarInit

\* The members as the constructor's initializer list leaves them, before its body.
InitCtor ==
    /\ AuxInit
    /\ lifecycle = "unconstructed"
    /\ cameraMatrices = EmptyMap
    /\ distortionCoeffs = EmptyMap
    /\ xiParams = EmptyMap
    /\ scaleXY = EmptyMap
    /\ shiftXY = EmptyMap
    /\ cameraPositions = EmptyMap
    /\ cameraRotations = EmptyMap
    /\ extrinsicMatrices = EmptyMap
    /\ m_threadPoolInitialized = FALSE
    /\ lastCall = NoCall
    /\ calBefore = [intr |-> NoIntr, extr |-> NoExtr]
    /\ nOps = 0
    /\ PipeIdle

\* The body of ImageProcessor::ImageProcessor() on the files `y` and `csv`:
\* the four intrinsic loads, the extrinsic load, then initializeThreadPool().
\* An exception of the extrinsic load leaves the constructor.
CtorOp(y, csv) ==
    LET l1 == loadCameraParametersOp("front", y, NoIntr)
        l2 == loadCameraParametersOp("left", y, l1.cal)
        l3 == loadCameraParametersOp("right", y, l2.cal)
        l4 == loadCameraParametersOp("back", y, l3.cal)
        e == loadExtrinsicParametersOp(csv, NoExtr)
    IN [intr |-> l4.cal, extr |-> e.ext, threw |-> e.threw, ok |-> e.ret,
        pool |-> ~e.threw]

\* A processor after construction, on any intrinsics file and on an
\* extrinsics file with one well-formed row: the state every surround-view
\* call starts from. (SpecCalib runs the constructor on every file.)
ConstructionCsv == [open |-> TRUE, rows |-> <<[kind |-> "ok", name |-> "front", pose |-> 1]>>]
Init ==
    /\ AuxInit
    /\ lifecycle = "alive"
    /\ \E y \in YamlFiles :
         LET c == CtorOp(y, ConstructionCsv)
         IN /\ cameraMatrices = c.intr.cameraMatrices
            /\ distortionCoeffs = c.intr.distortionCoeffs
            /\ xiParams = c.intr.xiParams
            /\ scaleXY = c.intr.scaleXY
            /\ shiftXY = c.intr.shiftXY
            /\ cameraPositions = c.extr.cameraPositions
            /\ cameraRotations = c.extr.cameraRotations
            /\ extrinsicMatrices = c.extr.extrinsicMatrices
            /\ m_threadPoolInitialized = c.pool
            /\ calBefore = [intr |-> c.intr, extr |-> c.extr]
    /\ lastCall = NoCall
    /\ nOps = 0
    /\ PipeIdle

SetIntr(cal) ==
    /\ cameraMatrices' = cal.cameraMatrices
    /\ distortionCoeffs' = cal.distortionCoeffs
    /\ xiParams' = cal.xiParams
    /\ scaleXY' = cal.scaleXY
    /\ shiftXY' = cal.shiftXY

SetExtr(ext) ==
    /\ cameraPositions' = ext.cameraPositions
    /\ cameraRotations' = ext.cameraRotations
    /\ extrinsicMatrices' = ext.extrinsicMatrices

\* ------------------------------------------------------ calibration store
\* ImageProcessor::ImageProcessor(). When the extrinsic load throws, no
\* processor exists.
Ctor ==
    /\ lifecycle = "unconstructed"
    /\ \E y \in YamlFiles, csv \in CsvFiles :
         LET c == CtorOp(y, csv)
         IN /\ SetIntr(c.intr)
            /\ SetExtr(c.extr)
            /\ lifecycle' = IF c.threw THEN "ctor_threw" ELSE "alive"
            /\ m_threadPoolInitialized' = c.pool
            /\ lastCall' = [op |-> "ctor", name |-> "none", ok |-> c.ok, mat |-> EmptyMat,
                            threw |-> c.threw, fileOk |-> FileComplete(y), csv |-> csv,
                            input |-> EmptyFrame, out |-> EmptyFrame, focal |-> 0]
    /\ UNCHANGED <<fnVars, calBefore, nOps, pipeVars>>

CalibCallable == lifecycle = "alive" /\ pc = "idle" /\ nOps < MaxOps

\* bool loadCameraParameters(const std::string& cameraName)
LoadCameraParameters ==
    /\ CalibCallable
    /\ \E n \in OpNames, y \in YamlFiles :
         LET l == loadCameraParametersOp(n, y, Intr)
         IN /\ SetIntr(l.cal)
            /\ lastCall' = [op |-> "loadCameraParameters", name |-> n, ok |-> l.ret,
                            mat |-> EmptyMat, threw |-> FALSE, fileOk |-> FileComplete(y),
                            csv |-> NoCall.csv,
                            input |-> EmptyFrame, out |-> EmptyFrame, focal |-> 0]
    /\ calBefore' = [intr |-> Intr, extr |-> Extr]
    /\ nOps' = nOps + 1
    /\ UNCHANGED <<fnVars, lifecycle, extrVars, m_threadPoolInitialized, pipeVars>>

\* bool loadExtrinsicParameters()
LoadExtrinsicParameters ==
    /\ CalibCallable
    /\ \E csv \in CsvFiles :
         LET e == loadExtrinsicParametersOp(csv, Extr)
         IN /\ SetExtr(e.ext)
            /\ lastCall' = [op |-> "loadExtrinsicParameters", name |-> "none", ok |-> e.ret,
                            mat |-> EmptyMat, threw |-> e.threw, fileOk |-> FALSE, csv |-> csv,
                            input |-> EmptyFrame, out |-> EmptyFrame, focal |-> 0]
    /\ calBefore' = [intr |-> Intr, extr |-> Extr]
    /\ nOps' = nOps + 1
    /\ UNCHANGED <<fnVars, lifecycle, intrVars, m_threadPoolInitialized, pipeVars>>

\* cv::Mat getExtrinsicMatrix(const std::string& cameraName)
GetExtrinsicMatrix ==
    /\ CalibCallable
    /\ \E n \in OpNames :
         LET g == getExtrinsicMatrixOp(n, Extr)
         IN /\ SetExtr(g.ext)
            /\ lastCall' = [op |-> "getExtrinsicMatrix", name |-> n, ok |-> TRUE,
                            mat |-> g.ret, threw |-> FALSE, fileOk |-> FALSE,
                            csv |-> NoCall.csv,
                            input |-> EmptyFrame, out |-> EmptyFrame, focal |-> 0]
    /\ calBefore' = [intr |-> Intr, extr |-> Extr]
    /\ nOps' = nOps + 1
    /\ UNCHANGED <<fnVars, lifecycle, intrVars, m_threadPoolInitialized, pipeVars>>

\* cv::Mat undistortWithYAMLParams(const cv::Mat& input, const std::string& cameraName)
UndistortWithYAMLParams ==
    /\ CalibCallable
    /\ \E n \in OpNames, k \in UndistortKinds :
         LET input == IF k = "empty" THEN EmptyFrame
                      ELSE [src |-> n, px |-> k, stages |-> <<>>, size |-> <<1280, 800>>]
             u == undistortWithYAMLParams(input, n, Intr)
         IN /\ SetIntr(u.cal)
            /\ lastCall' = [op |-> "undistortWithYAMLParams", name |-> n, ok |-> TRUE,
                            mat |-> EmptyMat, threw |-> FALSE, fileOk |-> FALSE,
                            csv |-> NoCall.csv, input |-> input, out |-> u.out,
                            focal |-> u.focal]
    /\ calBefore' = [intr |-> Intr, extr |-> Extr]
    /\ nOps' = nOps + 1
    /\ UNCHANGED <<fnVars, lifecycle, extrVars, m_threadPoolInitialized, pipeVars>>

NextCalib ==
    \/ Ctor
    \/ LoadCameraParameters
    \/ LoadExtrinsicParameters
    \/ GetExtrinsicMatrix
    \/ UndistortWithYAMLParams

SpecCalib == InitCtor /\ [][NextCalib]_vars

\* ------------------------------------------------------------ thread pool
\* void initializeThreadPool(size_t numThreads)
InitializeThreadPool ==
    /\ lifecycle = "alive" /\ pc = "idle"
    /\ ~m_threadPoolInitialized
    /\ m_threadPoolInitialized' = TRUE
    /\ UNCHANGED <<fnVars, lifecycle, intrVars, extrVars, callVars, pipeVars>>

\* void shutdownThreadPool()
ShutdownThreadPool ==
    /\ lifecycle = "alive" /\ pc = "idle"
    /\ m_threadPoolInitialized
    /\ m_threadPoolInitialized' = FALSE
    /\ UNCHANGED <<fnVars, lifecycle, intrVars, extrVars, callVars, pipeVars>>

\* ------------------------------------------------- surround-view entry points
PipeCallable == lifecycle = "alive" /\ pc = "idle"

\* A call that runs on the calling thread alone, start to return.
ReturnAtOnce(ep, fr, outcome, r) ==
    /\ entry' = ep
    /\ stageOutcome' = outcome
    /\ frames' = fr
    /\ SetIntr(r.cal)
    /\ result' = r.result
    /\ retVal' = r.result
    /\ threw' = r.threw
    /\ undistortCalls' = r.undistortCalls
    /\ tasksLaunched' = 0
    /\ pc' = "returned"
    /\ calBefore' = [intr |-> Intr, extr |-> Extr]
    /\ UNCHANGED <<auxVars, lifecycle, extrVars, m_threadPoolInitialized, lastCall, nOps,
                   taskpc, chan, joinIdx, undistorted, processed, resizepc>>

\* cv::Mat createSurroundView(front, left, right, back)
CreateSurroundView ==
    /\ PipeCallable
    /\ \E in \in InputCases, outcome \in SerialOutcomes :
         LET fr == [c \in Cameras |-> InputFrame(c, in.kind[c], in.size[c])]
         IN ReturnAtOnce("serial", fr, outcome, createSurroundViewOp(fr, Intr, outcome))

\* cv::Mat createCylindricalSurroundView(front, left, right, back)
CreateCylindricalSurroundView ==
    /\ PipeCallable
    /\ \E in \in InputCases, outcome \in CylOutcomes :
         LET fr == [c \in Cameras |-> InputFrame(c, in.kind[c], in.size[c])]
         IN ReturnAtOnce("cylindrical", fr, outcome,
                         createCylindricalSurroundViewOp(fr, Intr, outcome))

\* createSurroundViewParallel up to the launch of the four tasks: the empty
\* check, the fallback to createSurroundView when the pool is not
\* initialized, the promises and futures, the four std::async calls.
MutParallelLaunchesBeforeCheck(fr, pool) ==
    IF ~pool THEN "fallback" ELSE "launch"

ParallelEntry(fr, pool) ==
    IF AnyEmpty(fr) THEN "empty"
    ELSE IF ~pool THEN "fallback"
    ELSE "launch"

CreateSurroundViewParallel ==
    /\ PipeCallable
    /\ \E in \in InputCases, outcome \in SerialOutcomes :
         LET fr == [c \in Cameras |-> InputFrame(c, in.kind[c], in.size[c])]
             way == ParallelEntry(fr, m_threadPoolInitialized)
         IN \/ /\ way = "empty"
               /\ outcome = "ok"
               /\ ReturnAtOnce("parallel", fr, outcome,
                               [result |-> EmptyResult, threw |-> FALSE, cal |-> Intr,
                                undistortCalls |-> 0])
            \/ /\ way = "fallback"
               /\ ReturnAtOnce("parallel", fr, outcome, createSurroundViewOp(fr, Intr, outcome))
            \/ /\ way = "launch"
               /\ outcome = "ok"
               /\ entry' = "parallel"
               /\ stageOutcome' = outcome
               /\ frames' = fr
               /\ taskpc' = [c \in Cameras |-> "undistort"]
               /\ tasksLaunched' = Cardinality(Cameras)
               /\ pc' = "join"
               /\ calBefore' = [intr |-> Intr, extr |-> Extr]
               /\ UNCHANGED <<auxVars, lifecycle, intrVars, extrVars, m_threadPoolInitialized,
                              lastCall, nOps, chan, joinIdx, undistorted, processed,
                              resizepc, retVal, result, threw, undistortCalls>>

\* promise.set_value / promise.set_exception
Deliver(c, kind, f) == chan' = [chan EXCEPT ![c] = [kind |-> kind, frame |-> f]]

\* processImageAsync, first step: undistortWithYAMLParams on the shared maps.
\* An exception that is no cv::Exception leaves it and reaches the catch of
\* processImageAsync.
TaskUndistort(c) ==
    /\ taskpc[c] = "undistort"
    /\ undistortCalls' = undistortCalls + 1
    /\ LET u == undistortWithYAMLParams(frames[c], c, Intr)
       IN /\ SetIntr(u.cal)
          /\ \/ /\ undistorted' = [undistorted EXCEPT ![c] = u.out]
                /\ taskpc' = [taskpc EXCEPT ![c] = "rotate"]
                /\ UNCHANGED chan
             \/ /\ Deliver(c, "error", EmptyFrame)
                /\ taskpc' = [taskpc EXCEPT ![c] = "delivered"]
                /\ UNCHANGED undistorted
    /\ UNCHANGED <<fnVars, lifecycle, extrVars, m_threadPoolInitialized, callVars, pc, entry,
                   frames, joinIdx, processed, resizepc, retVal, result, threw,
                   tasksLaunched>>

\* processImageAsync, second step: the rotation, then promise.set_value, or
\* the catch (std::exception) and promise.set_exception.
TaskRotate(c) ==
    /\ taskpc[c] = "rotate"
    /\ \/ Deliver(c, "value", CameraRotation(c, undistorted[c]))
       \/ Deliver(c, "error", EmptyFrame)
    /\ taskpc' = [taskpc EXCEPT ![c] = "delivered"]
    /\ UNCHANGED <<fnVars, lifecycle, intrVars, extrVars, m_threadPoolInitialized, callVars, pc,
                   entry, frames, joinIdx, undistorted, processed, resizepc, retVal,
                   result, threw, tasksLaunched, undistortCalls>>

\* processImageAsync returns and the task's thread ends.
TaskExit(c) ==
    /\ taskpc[c] = "delivered"
    /\ taskpc' = [taskpc EXCEPT ![c] = "exited"]
    /\ UNCHANGED <<fnVars, lifecycle, intrVars, extrVars, m_threadPoolInitialized, callVars, pc,
                   entry, frames, chan, joinIdx, undistorted, processed, resizepc, retVal,
                   result, threw, tasksLaunched, undistortCalls>>

\* What one future.get() of the join does once the shared state is ready:
\* take the value and go on ("next"), or rethrow into the catch, which
\* returns cv::Mat() ("fail").
MutJoinIgnoresError(kind) == "next"

JoinStep(kind) == IF kind = "error" THEN "fail" ELSE "next"

\* Whether future.get() returns: it blocks until the promise is set.
MutGetDoesNotBlock(kind) == TRUE

FutureReady(kind) == kind # "unset"

\* The join: frontFuture.get(), leftFuture.get(), rightFuture.get(),
\* backFuture.get(), each blocking until its promise is set.
JoinGet ==
    /\ pc = "join"
    /\ LET c == JoinOrder[joinIdx + 1]
       IN /\ FutureReady(chan[c].kind)
          /\ IF JoinStep(chan[c].kind) = "next"
             THEN /\ processed' = [processed EXCEPT ![c] = chan[c].frame]
                  /\ joinIdx' = joinIdx + 1
                  /\ pc' = IF joinIdx + 1 = Len(JoinOrder) THEN "launch_resize" ELSE "join"
                  /\ UNCHANGED retVal
             ELSE /\ retVal' = EmptyResult
                  /\ pc' = "unwind"
                  /\ UNCHANGED <<processed, joinIdx>>
    /\ UNCHANGED <<fnVars, lifecycle, intrVars, extrVars, m_threadPoolInitialized, callVars, entry,
                   frames, taskpc, chan, undistorted, resizepc, result, threw,
                   tasksLaunched, undistortCalls>>

\* The four std::async resize tasks are launched.
LaunchResize ==
    /\ pc = "launch_resize"
    /\ resizepc' = [c \in Cameras |-> "run"]
    /\ pc' = "wait_resize"
    /\ UNCHANGED <<fnVars, lifecycle, intrVars, extrVars, m_threadPoolInitialized, callVars, entry,
                   frames, taskpc, chan, joinIdx, undistorted, processed, retVal, result,
                   threw, tasksLaunched, undistortCalls>>

\* One resize task: cv::resize of the camera's processed frame, in place.
ResizeTask(c) ==
    /\ resizepc[c] = "run"
    /\ processed' = [processed EXCEPT ![c] = ResizeToSection(c, @)]
    /\ resizepc' = [resizepc EXCEPT ![c] = "done"]
    /\ UNCHANGED <<fnVars, lifecycle, intrVars, extrVars, m_threadPoolInitialized, callVars, pc,
                   entry, frames, taskpc, chan, joinIdx, undistorted, retVal, result,
                   threw, tasksLaunched, undistortCalls>>

\* Whether the loop `for (auto& task : resizeTasks) task.wait();` gets
\* through: each wait blocks until its task has finished.
MutWaitDoesNotBlock(rp) == TRUE

ResizeTasksDone(rp) == \A c \in Cameras : rp[c] = "done"

\* for (auto& task : resizeTasks) task.wait(); then the canvas and the copies.
Compose ==
    /\ pc = "wait_resize"
    /\ ResizeTasksDone(resizepc)
    /\ retVal' = ComposeParallel(processed)
    /\ pc' = "unwind"
    /\ UNCHANGED <<fnVars, lifecycle, intrVars, extrVars, m_threadPoolInitialized, callVars, entry,
                   frames, taskpc, chan, joinIdx, undistorted, processed, resizepc, result,
                   threw, tasksLaunched, undistortCalls>>

\* Whether the destructors of frontTask, leftTask, rightTask and backTask get
\* through: the destructor of a future that std::async(std::launch::async)
\* returned blocks until its task has ended.
MutFuturesDoNotBlock(tp) == TRUE

TaskFuturesReleased(tp) == \A c \in Cameras : tp[c] = "exited"

\* The return: the destructors of frontTask, leftTask, rightTask and backTask
\* (futures of std::async) block until their tasks have ended.
Return ==
    /\ pc = "unwind"
    /\ TaskFuturesReleased(taskpc)
    /\ result' = retVal
    /\ pc' = "returned"
    /\ UNCHANGED <<fnVars, lifecycle, intrVars, extrVars, m_threadPoolInitialized, callVars, entry,
                   frames, taskpc, chan, joinIdx, undistorted, processed, resizepc, retVal,
                   threw, tasksLaunched, undistortCalls>>

\* The caller takes the result; the locals of the call are gone.
CallerContinues ==
    /\ pc = "returned"
    /\ pc' = "idle"
    /\ entry' = "none"
    /\ frames' = NoFrames
    /\ taskpc' = [c \in Cameras |-> "none"]
    /\ chan' = [c \in Cameras |-> NoChan]
    /\ joinIdx' = 0
    /\ undistorted' = NoFrames
    /\ processed' = NoFrames
    /\ resizepc' = [c \in Cameras |-> "none"]
    /\ retVal' = NoResult
    /\ result' = NoResult
    /\ threw' = FALSE
    /\ tasksLaunched' = 0
    /\ undistortCalls' = 0
    /\ stageOutcome' = "none"
    /\ UNCHANGED <<auxVars, lifecycle, intrVars, extrVars, m_threadPoolInitialized, callVars>>

Next ==
    \/ InitializeThreadPool
    \/ ShutdownThreadPool
    \/ CreateSurroundView
    \/ CreateCylindricalSurroundView
    \/ CreateSurroundViewParallel
    \/ \E c \in Cameras : TaskUndistort(c)
    \/ \E c \in Cameras : TaskRotate(c)
    \/ \E c \in Cameras : TaskExit(c)
    \/ JoinGet
    \/ LaunchResize
    \/ \E c \in Cameras : ResizeTask(c)
    \/ Compose
    \/ Return
    \/ CallerContinues

Spec == Init /\ [][Next]_vars

\* ---------------------------------------------------------- mouse scroll
\* The offsets a scroll event carries: single steps and half steps in both
\* directions, and offsets large enough to pass a bound from anywhere.
YOffsets == {-1000, -15, -10, -5, 5, 10, 15, 1000}

\* The two clamps of processMouseScroll.
MutClampLowerOnly(fov) == IF fov < MinFov THEN MinFov ELSE fov

ClampFov(fov) ==
    LET low == IF fov < MinFov THEN MinFov ELSE fov
    IN IF low > MaxFov THEN MaxFov ELSE low

\* void Camera::processMouseScroll(float yoffset), reached from
\* Renderer3D::scrollCallback.
ProcessMouseScroll ==
    /\ \E yoffset \in YOffsets :
         /\ m_fov' = ClampFov(m_fov - yoffset * ScrollSensitivity)
         /\ lastScroll' = [called |-> TRUE, before |-> m_fov, yoffset |-> yoffset]
    /\ UNCHANGED <<baseVars, auxExceptCam>>

NextCamera == ProcessMouseScroll

SpecCamera == InitCtor /\ [][NextCamera]_vars

\* =================================================================== claims
HasStage(f, st) == \E i \in 1..Len(f.stages) : f.stages[i] = st
Before(f, a, b) ==
    \E i, j \in 1..Len(f.stages) : i < j /\ f.stages[i] = a /\ f.stages[j] = b
ParallelRan == entry = "parallel" /\ tasksLaunched > 0

\* ------------------------------------------- the cylindrical compositor
\* The pixels: every angle of the grid, distances on both sides of each
\* radius the code tests, images that pass the interpolation guard
\* everywhere and small ones that do not, and three sets of samples.
Angles == 0 .. FullTurn - 1
Distances == {80, 81, 83, 90, 100, 240, 380, 390, 397, 399, 400}
ImageSizes == {<<1280, 800>>, <<10, 6>>}
Samples ==
    {[cam \in Cameras |-> 200],
     [cam \in Cameras |-> IF cam \in {"front", "back"} THEN 40 ELSE 255],
     [cam \in Cameras |-> IF cam \in {"front", "right"} THEN 0 ELSE 131]}

\* One iteration of the loop over the canvas pixels: each pixel is computed
\* once, from zero accumulators.
ComposePixel ==
    /\ ~pixel.computed
    /\ \E angle \in Angles, distance \in Distances, size \in ImageSizes, sample \in Samples :
         pixel' = ComposePixelOp(angle, distance, size, sample)
    /\ UNCHANGED <<baseVars, auxExceptPixel>>

NextSectors == ComposePixel
SpecSectors == InitCtor /\ [][NextSectors]_vars

\* ------------------------------ the gap filling of createSeamlessSurroundView
\* Step 7 of one call: result is the sum of the four contributions, then the
\* loop normalizes it and fills the gaps.
NormalizeAndFillGaps ==
    /\ ~gapFill.done
    /\ \E cells \in FilledSets(MaxFilled) :
         LET totalWeights == [i \in Cells |-> IF i \in cells THEN WeightOf(i) ELSE 0]
             summed == [i \in Cells |-> IF i \in cells THEN ColorOf(i) * WeightOf(i) ELSE 0]
         IN gapFill' = [done |-> TRUE, totalWeights |-> totalWeights,
                        result |-> NormalizeAndFill(0, totalWeights, summed)]
    /\ UNCHANGED <<baseVars, auxExceptGapFill>>

NextGapFill == NormalizeAndFillGaps
SpecGapFill == InitCtor /\ [][NextGapFill]_vars

\* ------------------------------------------------- projectToCylindrical
\* Inputs: the empty frame, a frame of one pixel and a 4x3 frame; the
\* coordinates around every half pixel from below zero to beyond the frame.
ProjSizes == {<<0, 0>>, <<1, 1>>, <<4, 3>>}
RawCoords(extent) ==
    {v \in -CoordScale .. (extent + 1) * CoordScale :
        v % (CoordScale \div 2) \in {0, 1, CoordScale \div 2 - 1}}

\* One iteration of the loop over the destination pixels.
ProjectPixel ==
    /\ ~proj.done
    /\ \E size \in ProjSizes :
         \E rawX \in RawCoords(size[1]), rawY \in RawCoords(size[2]) :
            proj' = ProjectPixelOp(size, <<rawX, rawY>>)
    /\ UNCHANGED <<baseVars, auxExceptProj>>

NextProject == ProjectPixel
SpecProject == InitCtor /\ [][NextProject]_vars

\* -------------------------------------------------------------- main()
\* renderer.initialize(); main returns -1 when it fails.
RendererInitialize ==
    /\ render.phase = "initialize"
    /\ \E outcome \in InitializeOutcomes :
         /\ renderer' = InitializeOp(renderer, outcome)
         /\ render' = [render EXCEPT !.phase = IF outcome = "ok" THEN "startup" ELSE "returned"]
    /\ UNCHANGED <<baseVars, auxExceptMain>>

\* The check of the folders and of the first frames, and the first texture.
Startup ==
    /\ render.phase = "startup"
    /\ \E first \in [Cameras -> FirstFrameKinds], cyl \in BOOLEAN, seamless \in BOOLEAN,
          frontOk \in BOOLEAN :
         render' = StartupOp(render, first, cyl, seamless, frontOk)
    /\ UNCHANGED <<baseVars, auxExceptMain, renderer>>

\* One iteration of the render loop: the window is not asked to close.
LoopIteration ==
    /\ render.phase = "loop"
    /\ \E elapsed \in BOOLEAN, loaded \in SUBSET Cameras, cyl \in BOOLEAN,
          seamless \in BOOLEAN, frontOk \in BOOLEAN :
         render' = IterationOp(render, elapsed, loaded, cyl, seamless, frontOk)
    /\ UNCHANGED <<baseVars, auxExceptMain, renderer>>

\* The window is asked to close: the loop ends, main calls renderer.cleanup()
\* and returns 0.
CloseAndCleanup ==
    /\ render.phase = "loop"
    /\ renderer' = CleanupOp(renderer)
    /\ render' = [render EXCEPT !.phase = "returned"]
    /\ UNCHANGED <<baseVars, auxExceptMain>>

\* main has returned: the renderer goes out of scope and its destructor runs.
RendererDestructor ==
    /\ render.phase = "returned"
    /\ ~renderer.destroyed
    /\ renderer' = [CleanupOp(renderer) EXCEPT !.destroyed = TRUE]
    /\ UNCHANGED <<baseVars, auxExceptMain, render>>

NextRender ==
    \/ RendererInitialize
    \/ Startup
    \/ LoopIteration
    \/ CloseAndCleanup
    \/ RendererDestructor
SpecRender == InitCtor /\ [][NextRender]_vars

\* ---------------------------------------- applyCameraSpecificCropping, one call
MaxSide == 20
CropCall ==
    /\ ~crop.computed
    /\ \E cameraName \in Names, width \in 1..MaxSide, height \in 1..MaxSide, slack \in {0, 1} :
         LET r == CropRect(cameraName, <<width, height>>, slack)
         IN crop' = [computed |-> TRUE, name |-> cameraName, size |-> <<width, height>>,
                     rect |-> r.rect, fallback |-> r.fallback]
    /\ UNCHANGED <<baseVars, auxExceptCrop>>

NextCrop == CropCall
SpecCrop == InitCtor /\ [][NextCrop]_vars

\* ------------------------ the vehicle placeholder, one pixel around the centre
WindowHalfWidth == 45
WindowHalfHeight == 85
CarPixel ==
    /\ ~car.checked
    /\ \E x \in (CylCanvasWidth \div 2 - WindowHalfWidth)..(CylCanvasWidth \div 2 + WindowHalfWidth),
          y \in (CylCanvasHeight \div 2 - WindowHalfHeight)..(CylCanvasHeight \div 2 + WindowHalfHeight) :
         car' = [checked |-> TRUE, x |-> x, y |-> y, drawn |-> CarDrawn(x, y),
                 inRing |-> InRing(x, y)]
    /\ UNCHANGED <<baseVars, auxExceptCar>>

NextCar == CarPixel
SpecCar == InitCtor /\ [][NextCar]_vars

\* C1: whichever entry point is called (createSurroundView,
\* createSurroundViewParallel, createCylindricalSurroundView), if one of the
\* four input frames is empty the call has returned an empty frame, launched
\* no per-camera task, run no undistortion, and thrown nothing.
C1_EmptyInputReturnsEmpty ==
    (entry # "none" /\ AnyEmpty(frames)) =>
        /\ pc = "returned"
        /\ result = EmptyResult
        /\ ~threw
        /\ tasksLaunched = 0
        /\ undistortCalls = 0
        /\ \A c \in Cameras : taskpc[c] = "none" /\ resizepc[c] = "none"

C1_Witness ==
    /\ entry = "parallel"
    /\ m_threadPoolInitialized
    /\ IsEmpty(frames["back"])
    /\ ~IsEmpty(frames["front"]) /\ ~IsEmpty(frames["left"]) /\ ~IsEmpty(frames["right"])
    /\ pc = "returned"
    /\ result = EmptyResult

\* C2: in createSurroundViewParallel, once a per-camera task has delivered an
\* exception through its channel, the call returns only an empty frame,
\* whatever the other three tasks delivered; a returned canvas holds a frame
\* of each of the four cameras, each taken from a delivered value.
C2_TaskFailureReturnsEmpty ==
    (ParallelRan /\ pc = "returned") =>
        /\ (\E c \in Cameras : chan[c].kind = "error") => result = EmptyResult
        /\ result.kind = "canvas" =>
              \A c \in Cameras : /\ chan[c].kind = "value"
                                 /\ result.tiles[c].src = c
        /\ ~threw

C2_Witness ==
    /\ ParallelRan
    /\ pc = "returned"
    /\ chan["front"].kind = "value"
    /\ chan["left"].kind = "error"
    /\ chan["right"].kind = "value"
    /\ chan["back"].kind = "value"
    /\ result = EmptyResult

\* C3: in createSurroundViewParallel, under every interleaving, whenever the
\* resize/composition stage has started (resize tasks launched or run, canvas
\* composed) all four tasks have delivered a value through their channel:
\* none is still undistorting or rotating, and none has delivered an error.
ResizeStageStarted ==
    \/ pc \in {"launch_resize", "wait_resize"}
    \/ \E c \in Cameras : resizepc[c] # "none"
    \/ retVal.kind = "canvas"

C3_JoinIsBarrier ==
    (ParallelRan /\ ResizeStageStarted) =>
        \A c \in Cameras : /\ chan[c].kind = "value"
                           /\ taskpc[c] \in {"delivered", "exited"}

C3_Witness ==
    /\ ParallelRan
    /\ pc = "wait_resize"
    /\ resizepc["front"] = "done"
    /\ resizepc["back"] = "run"
    /\ \A c \in Cameras : chan[c].kind = "value"

\* What the sequential fallback returns for the inputs and the maps of the
\* call in progress, when nothing throws.
FallbackResult == createSurroundViewOp(frames, calBefore.intr, "ok").result

\* C4: for identical valid inputs the parallel path applies the same
\* per-camera stages and composition steps as the sequential fallback that
\* createSurroundViewParallel takes when the pool is not initialized, and
\* returns the same output frame.
C4_FallbackSameFrame ==
    (ParallelRan /\ pc = "returned" /\ result.kind = "canvas") => result = FallbackResult

\* C5: every frame of the canvas createSurroundViewParallel returns has
\* passed the cylindrical projection, after its rotation, and the canvas is
\* composed by the angular-sector compositor.
C5_ParallelFeedsCylindrical ==
    (ParallelRan /\ pc = "returned" /\ result.kind = "canvas") =>
        /\ result.compositor = "sectors"
        /\ \A c \in Cameras : HasStage(result.tiles[c], "cylindrical")
        /\ \A c \in Cameras \ {"front"} :
              \/ Before(result.tiles[c], "rot90ccw", "cylindrical")
              \/ Before(result.tiles[c], "rot90cw", "cylindrical")
              \/ Before(result.tiles[c], "rot180", "cylindrical")

\* C6: at every point of a createSurroundViewParallel call that launched its
\* tasks, under every interleaving, the five intrinsic maps are what they
\* were when the call began, whether or not the cameras' intrinsics loaded.
C6_TasksLeaveMapsAlone ==
    ParallelRan => Intr = calBefore.intr

C6_Witness ==
    /\ ParallelRan
    /\ pc = "returned"
    /\ undistortCalls = Cardinality(Cameras)
    /\ "front" \in DOMAIN cameraMatrices
    /\ result.kind = "canvas"

\* C7, as stated: loadCameraParameters succeeds only for a declared camera
\* name; for an undeclared name it fails and stores nothing under the name.
C7_UndeclaredNameRejected ==
    (lastCall.op = "loadCameraParameters" /\ lastCall.name \notin Cameras) =>
        /\ ~lastCall.ok
        /\ lastCall.name \notin DOMAIN cameraMatrices

\* C7, as amended: loadCameraParameters does not look at the name. For every
\* name, declared or not, it succeeds exactly when a candidate file opens and
\* its K, D and xi can be read, and then the name has an entry in each of
\* the five maps.
C7_LoadIgnoresName ==
    lastCall.op = "loadCameraParameters" =>
        /\ lastCall.ok = lastCall.fileOk
        /\ lastCall.ok =>
              /\ lastCall.name \in DOMAIN cameraMatrices
              /\ lastCall.name \in DOMAIN distortionCoeffs
              /\ lastCall.name \in DOMAIN xiParams
              /\ lastCall.name \in DOMAIN scaleXY
              /\ lastCall.name \in DOMAIN shiftXY

C7_Witness ==
    /\ lastCall.op = "loadCameraParameters"
    /\ lastCall.name = Undeclared
    /\ lastCall.ok
    /\ Undeclared \in DOMAIN cameraMatrices

\* C8: a loadCameraParameters call that returns false leaves all five
\* intrinsic maps exactly as they were before the call.
C8_FailedLoadLeavesMaps ==
    (lastCall.op = "loadCameraParameters" /\ ~lastCall.ok) => Intr = calBefore.intr

C8_Witness ==
    /\ lastCall.op = "loadCameraParameters"
    /\ ~lastCall.ok
    /\ lastCall.name \in DOMAIN cameraMatrices
    /\ xiParams[lastCall.name] > XiThreshold

\* The extrinsic maps with every well-formed row of rows[i..] stored, in order.
RECURSIVE WithWellFormedRows(_, _, _)
WithWellFormedRows(rows, i, ext) ==
    IF i > Len(rows) THEN ext
    ELSE WithWellFormedRows(rows, i + 1,
            IF rows[i].kind = "ok"
            THEN [cameraPositions |-> Store(ext.cameraPositions, rows[i].name,
                                            <<"pos", rows[i].pose>>),
                  cameraRotations |-> Store(ext.cameraRotations, rows[i].name,
                                            <<"rot", rows[i].pose>>),
                  extrinsicMatrices |-> Store(ext.extrinsicMatrices, rows[i].name,
                                              BuildExtrinsic(rows[i].pose))]
            ELSE ext)

\* C9: a load of an extrinsics file that opens, by the constructor or by a
\* call of loadExtrinsicParameters, skips every malformed row, stores every
\* well-formed row, returns success and throws nothing; the constructor
\* completes.
C9_MalformedRowsSkipped ==
    (lastCall.op \in {"ctor", "loadExtrinsicParameters"} /\ lastCall.csv.open) =>
        /\ ~lastCall.threw
        /\ lastCall.ok
        /\ lifecycle = "alive"
        /\ Extr = WithWellFormedRows(lastCall.csv.rows, 1,
                      IF lastCall.op = "ctor" THEN NoExtr ELSE calBefore.extr)

\* C10: getExtrinsicMatrix for a name with no loaded row returns the 4x4
\* identity, throws nothing and leaves the extrinsic maps as they were, with
\* no entry for the name, after any sequence of loads and lookups.
C10_UnknownNameGivesIdentity ==
    lastCall.op = "getExtrinsicMatrix" =>
        /\ ~lastCall.threw
        /\ Extr = calBefore.extr
        /\ lastCall.name \notin DOMAIN calBefore.extr.extrinsicMatrices =>
              /\ lastCall.mat = Eye4
              /\ lastCall.name \notin DOMAIN extrinsicMatrices

C10_Witness ==
    /\ lastCall.op = "getExtrinsicMatrix"
    /\ lastCall.name = "left"
    /\ lastCall.mat = Eye4
    /\ extrinsicMatrices # EmptyMap
    /\ "left" \notin DOMAIN extrinsicMatrices
    /\ nOps = MaxOps

\* C11: undistortWithYAMLParams on a non-empty input never returns an empty
\* frame and throws nothing to its caller; it returns the input itself when
\* the camera has no loaded K or D, when the backend's cv::Exception reaches
\* the catch, and when the mean luminance of the result is below the
\* threshold.
C11_UndistortFallsBackToInput ==
    (lastCall.op = "undistortWithYAMLParams" /\ ~IsEmpty(lastCall.input)) =>
        /\ ~lastCall.threw
        /\ ~IsEmpty(lastCall.out)
        /\ lastCall.out.px # "black"
        /\ (\/ lastCall.name \notin DOMAIN calBefore.intr.cameraMatrices
            \/ lastCall.name \notin DOMAIN calBefore.intr.distortionCoeffs
            \/ lastCall.input.px \in {"bad", "dark"}) => lastCall.out = lastCall.input

C11_Witness ==
    /\ lastCall.op = "undistortWithYAMLParams"
    /\ lastCall.name \in DOMAIN cameraMatrices
    /\ lastCall.input.px = "dark"
    /\ lastCall.out = lastCall.input

\* C17: after any sequence of mouse-scroll events the field of view is within
\* 10 and 150 degrees, and a scroll whose offset would take it past a bound
\* leaves it exactly at that bound.
C17_FovStaysInRange ==
    /\ m_fov >= MinFov /\ m_fov <= MaxFov
    /\ lastScroll.called =>
          LET wanted == lastScroll.before - lastScroll.yoffset * ScrollSensitivity
          IN /\ wanted < MinFov => m_fov = MinFov
             /\ wanted > MaxFov => m_fov = MaxFov
             /\ (wanted >= MinFov /\ wanted <= MaxFov) => m_fov = wanted

C17_Witness ==
    /\ lastScroll.called
    /\ lastScroll.before = MinFov + 10
    /\ lastScroll.yoffset = -1000
    /\ m_fov = MaxFov

\* C12: a createCylindricalSurroundView call in which the cylindrical
\* projection of some camera is empty returns an empty canvas, and every
\* canvas it returns is composed, by the sector compositor, of the four
\* cameras' non-empty projected frames.
C12_NoPartialPanorama ==
    (entry = "cylindrical" /\ pc = "returned") =>
        /\ (~AnyEmpty(frames)
             /\ \E c \in Cameras : IsEmpty(CylProjections(frames, calBefore.intr)[c]))
              => result = EmptyResult
        /\ result.kind = "canvas" =>
              /\ result.compositor = "sectors"
              /\ \A c \in Cameras : /\ ~IsEmpty(result.tiles[c])
                                     /\ result.tiles[c].src = c
                                     /\ HasStage(result.tiles[c], "cylindrical")

C12_Witness ==
    /\ entry = "cylindrical"
    /\ pc = "returned"
    /\ result.kind = "canvas"
    /\ frames["left"].px = "dark"
    /\ \A c \in Cameras : HasStage(result.tiles[c], "cylindrical")

\* C16: a createSurroundView or createSurroundViewParallel call on four
\* non-empty frames of any sizes, in which no stage throws, returns a
\* non-empty canvas, and every such canvas has the one width and the one
\* height, each section having been resized to its fixed size.
SectionSize(c) ==
    IF c \in {"front", "back"} THEN <<FrontBackWidth, FrontBackHeight>>
    ELSE <<LeftRightWidth, LeftRightHeight>>

NoStageThrew == stageOutcome = "ok" /\ \A c \in Cameras : chan[c].kind # "error"

C16_CanvasSizeFixed ==
    (pc = "returned" /\ entry \in {"serial", "parallel"} /\ ~AnyEmpty(frames)
       /\ NoStageThrew) =>
        /\ result.kind = "canvas"
        /\ result.w = SurroundWidth
        /\ result.h = SurroundHeight
        /\ \A c \in Cameras : result.tiles[c].size = SectionSize(c)

C16_Witness ==
    /\ pc = "returned"
    /\ entry = "serial"
    /\ NoStageThrew
    /\ result.kind = "canvas"
    /\ frames["front"].size # frames["left"].size
    /\ result.w = 2280 /\ result.h = 2240

\* The steps of the calling thread inside a createSurroundViewParallel call.
CallerStep == JoinGet \/ LaunchResize \/ Compose \/ Return
InParallelCall == entry = "parallel" /\ pc \in {"join", "launch_resize", "wait_resize", "unwind"}
CallerBlocked == InParallelCall /\ ~ENABLED CallerStep

\* C18 as stated: the calling thread blocks only at the join, and once the
\* join is through no further task is launched.
C18_BlocksOnlyAtJoin ==
    /\ CallerBlocked => pc = "join"
    /\ (InParallelCall /\ joinIdx = Len(JoinOrder)) => \A c \in Cameras : resizepc[c] = "none"

\* C18: the calling thread of createSurroundViewParallel blocks exactly at
\* the join while the next future is not ready, at the wait for the four
\* resize tasks it launches after the join while one of them is running, and
\* at the return while a per-camera task has not ended; the four resize
\* tasks are the only tasks launched after the join, and the canvas and the
\* copies are made by the calling thread once all four have finished.
C18_BlocksAtJoinAndResizeWait ==
    /\ CallerBlocked <=>
          /\ InParallelCall
          /\ \/ pc = "join" /\ chan[JoinOrder[joinIdx + 1]].kind = "unset"
             \/ pc = "wait_resize" /\ \E c \in Cameras : resizepc[c] = "run"
             \/ pc = "unwind" /\ \E c \in Cameras : taskpc[c] # "exited"
    /\ (InParallelCall /\ pc \in {"join", "launch_resize"}) =>
          \A c \in Cameras : resizepc[c] = "none"
    /\ (InParallelCall /\ retVal.kind = "canvas") =>
          /\ \A c \in Cameras : resizepc[c] = "done"
          /\ tasksLaunched = Cardinality(Cameras)

C18_Witness ==
    /\ CallerBlocked
    /\ pc = "wait_resize"
    /\ resizepc["front"] = "done"
    /\ resizepc["back"] = "run"

\* C13: every angle lies in the sector of at least one camera, and that
\* camera's angular blend weight at the angle is above zero.
C13_EveryAngleCovered ==
    pixel.computed =>
        \E cam \in Cameras : cam \in pixel.inSector /\ pixel.angular[cam] > 0

C13_Witness ==
    /\ pixel.computed
    /\ pixel.angle = Deg(315)
    /\ pixel.inSector = {"front", "left"}
    /\ pixel.angular["left"] > 0
    /\ pixel.angular["left"] < AngularDen

\* A camera's angular blend weight at an angle: zero outside its sector.
CameraWeight(cam, angle) ==
    IF InSector(cam, angle) THEN AngularWeight(Abs(AngleOffset(cam, angle))) ELSE 0

\* C14: a camera's blend weight has no jump from one angle of the grid to
\* the next: the two weights differ by no more than the steepest slope of
\* the smooth step (1.5 per blend width) allows over one step, at the edge
\* of the sector as inside it.
C14_NoJumpAtSectorEdge ==
    pixel.computed =>
        \A cam \in Cameras :
            2 * Abs(CameraWeight(cam, (pixel.angle + 1) % FullTurn) - pixel.angular[cam])
                <= 3 * BlendDen * BlendDen

\* C15: a pixel is written exactly when its accumulated weight is above the
\* threshold; the colour written is the accumulated weighted colour divided
\* by the accumulated weight, which is the sum of the contributing cameras'
\* weights, and lies between the smallest and the largest contributing sample.
Contributors == {cam \in Cameras : pixel.weight[cam] > 0}
C15_OutputIsWeightedMean ==
    pixel.computed =>
        /\ pixel.written <=>
             /\ pixel.distance > InnerRadius /\ pixel.distance < OuterRadius
             /\ AboveThreshold(pixel.totalWeight)
        /\ pixel.written =>
             /\ Contributors # {}
             /\ pixel.totalWeight =
                  pixel.weight["front"] + pixel.weight["left"]
                  + pixel.weight["back"] + pixel.weight["right"]
             /\ pixel.totalColor =
                  pixel.sample["front"] * pixel.weight["front"]
                  + pixel.sample["left"] * pixel.weight["left"]
                  + pixel.sample["back"] * pixel.weight["back"]
                  + pixel.sample["right"] * pixel.weight["right"]
             /\ 2 * Abs(pixel.color * pixel.totalWeight - pixel.totalColor) <= pixel.totalWeight
             /\ \E cam \in Contributors : pixel.sample[cam] <= pixel.color
             /\ \E cam \in Contributors : pixel.sample[cam] >= pixel.color

C15_Witness ==
    /\ pixel.written
    /\ Contributors = {"front", "left"}
    /\ pixel.sample["front"] < pixel.color
    /\ pixel.color < pixel.sample["left"]

\* The half-width of the overlap of two sectors of sectorSize degrees.
OverlapHalfWidth == (Deg(SectorSize) - FullTurn \div Cardinality(Cameras)) \div 2
NearBoundary(angle) ==
    \E cam \in Cameras :
        LET d == (angle - CameraPlacements[cam].startAngle) % FullTurn
        IN d < OverlapHalfWidth \/ d > FullTurn - OverlapHalfWidth

\* C19: at a pixel whose angle is within the overlap of a sector boundary,
\* away from the inner and outer rings and with samplable images, the two
\* adjacent cameras both contribute with a weight above zero.
C19_AdjacentSectorsOverlap ==
    (pixel.computed /\ NearBoundary(pixel.angle)
       /\ pixel.distance >= InnerRadius + RadialBlend
       /\ pixel.distance <= OuterRadius - RadialBlend
       /\ pixel.size = <<1280, 800>>) =>
        Cardinality(Contributors) >= 2

\* The filled cells of the search neighbourhood of cell i that are nearest
\* to it.
NearestFilled(i) ==
    LET found == {j \in Neighbourhood(i) : Filled(gapFill.totalWeights, j)}
        Dist2(j) == (CellX(j) - CellX(i)) * (CellX(j) - CellX(i))
                    + (CellY(j) - CellY(i)) * (CellY(j) - CellY(i))
    IN {j \in found : \A k \in found : Dist2(j) <= Dist2(k)}

\* C20: after step 7 a pixel without contributions has the colour of a
\* nearest pixel with contributions within the search neighbourhood, and the
\* dark fill colour when the neighbourhood has none.
C20_GapTakesNearestFilled ==
    gapFill.done =>
        \A i \in Cells :
            ~Filled(gapFill.totalWeights, i) =>
                IF NearestFilled(i) = {}
                THEN gapFill.result[i] = FillColor
                ELSE \E j \in NearestFilled(i) : gapFill.result[i] = ColorOf(j)

\* C21: an undistortWithYAMLParams call that reaches the backend takes the
\* fisheye path, with fx and fy at 45 percent, exactly when the camera's xi
\* is above 0.5, and the standard path at 60 percent otherwise, xi = 0.5
\* included; when the fisheye backend fails, standard undistortion runs with
\* the 45 percent matrix.
BackendRan ==
    /\ lastCall.op = "undistortWithYAMLParams"
    /\ lastCall.input.px \in {"ok", "fisheye_bad"}
    /\ lastCall.name \in DOMAIN calBefore.intr.cameraMatrices
    /\ lastCall.name \in DOMAIN calBefore.intr.distortionCoeffs
    /\ lastCall.name \in DOMAIN calBefore.intr.xiParams

C21_XiSelectsPath ==
    BackendRan =>
        LET xi == calBefore.intr.xiParams[lastCall.name]
        IN /\ xi > XiThreshold =>
                /\ lastCall.focal = 45
                /\ ~HasStage(lastCall.out, "undistort_standard")
                /\ HasStage(lastCall.out, IF lastCall.input.px = "fisheye_bad"
                                          THEN "undistort_fallback" ELSE "undistort_fisheye")
           /\ xi <= XiThreshold =>
                /\ lastCall.focal = 60
                /\ HasStage(lastCall.out, "undistort_standard")
                /\ ~HasStage(lastCall.out, "undistort_fisheye")
                /\ ~HasStage(lastCall.out, "undistort_fallback")

C21_Witness ==
    /\ BackendRan
    /\ calBefore.intr.xiParams[lastCall.name] = XiThreshold
    /\ lastCall.focal = 60
    /\ HasStage(lastCall.out, "undistort_standard")

\* C22: projectToCylindrical returns a frame of the size of its input, empty
\* only for an empty input; a destination pixel is copied only from a source
\* index inside the input, and a destination pixel whose rounded source
\* index is outside the input, the width or the height itself included,
\* stays zero.
C22_ProjectionStaysInBounds ==
    proj.done =>
        /\ proj.outSize = proj.inSize
        /\ proj.read =>
             /\ proj.srcX \in 0 .. proj.inSize[1] - 1
             /\ proj.srcY \in 0 .. proj.inSize[2] - 1
             /\ proj.value # 0
        /\ (proj.srcX \notin 0 .. proj.inSize[1] - 1
            \/ proj.srcY \notin 0 .. proj.inSize[2] - 1) =>
             /\ ~proj.read
             /\ proj.value = 0

C22_Witness ==
    /\ proj.done
    /\ proj.inSize = <<4, 3>>
    /\ proj.srcX = 4
    /\ proj.srcY = 1
    /\ ~proj.read
    /\ proj.value = 0

\* C23: while a per-camera task or a resize task of a
\* createSurroundViewParallel call is running, the call has not returned and
\* its input frames are still there; this holds on the return after the
\* composition and on the return from the catch of the join.
TaskRunning ==
    \E c \in Cameras : taskpc[c] \in {"undistort", "rotate", "delivered"} \/ resizepc[c] = "run"

C23_NoTaskOutlivesCall ==
    /\ TaskRunning =>
         /\ InParallelCall
         /\ ~AnyEmpty(frames)
    /\ (entry = "parallel" /\ pc = "returned") =>
         \A c \in Cameras : taskpc[c] \in {"none", "exited"} /\ resizepc[c] \in {"none", "done"}

C23_Witness ==
    /\ entry = "parallel"
    /\ pc = "returned"
    /\ result = EmptyResult
    /\ joinIdx = 0
    /\ chan["front"].kind = "error"
    /\ chan["back"].kind = "value"
    /\ \A c \in Cameras : taskpc[c] = "exited"

\* C24: after step 7 a pixel without contributions that has a pixel with
\* contributions in its search neighbourhood holds the normalized colour of
\* the pixel the search stopped at, whether that pixel comes before or after
\* it in the scan.
C24_GapCopiesNormalizedColour ==
    gapFill.done =>
        \A i \in Cells :
            (~Filled(gapFill.totalWeights, i) /\ FirstFound(gapFill.totalWeights, i) # -1) =>
                gapFill.result[i] = ColorOf(FirstFound(gapFill.totalWeights, i))

\* C25: the five intrinsic maps always have the same key set, after loads that
\* succeeded and loads that failed, under declared and undeclared names; so a
\* camera with a camera matrix and distortion coefficients has an entry in
\* every map.
C25_SameKeySets ==
    /\ DOMAIN distortionCoeffs = DOMAIN cameraMatrices
    /\ DOMAIN xiParams = DOMAIN cameraMatrices
    /\ DOMAIN scaleXY = DOMAIN cameraMatrices
    /\ DOMAIN shiftXY = DOMAIN cameraMatrices

C25_Witness ==
    /\ lastCall.op = "loadCameraParameters"
    /\ lastCall.ok
    /\ lastCall.name = Undeclared
    /\ Undeclared \in DOMAIN shiftXY
    /\ "front" \in DOMAIN shiftXY
    /\ "left" \notin DOMAIN cameraMatrices

\* C26: while the sequences are not empty the frame index is at least 0 and
\* less than their length, and an iteration that is a frame tick leaves the
\* index one past its old value, or at 0 after the last frame, whether or not
\* the four frames loaded and whichever composition succeeded.
C26_IndexInRangeAndAdvances ==
    /\ render.sequenceLength > 0 =>
           (render.currentImageIndex >= 0 /\ render.currentImageIndex < render.sequenceLength)
    /\ render.tick.frameTick =>
           render.currentImageIndex =
               IF render.tick.indexBefore = render.sequenceLength - 1 THEN 0
               ELSE render.tick.indexBefore + 1

C26_Witness ==
    /\ render.tick.frameTick
    /\ render.tick.loaded # Cameras
    /\ render.tick.indexBefore = SequenceLength - 1
    /\ render.currentImageIndex = 0

\* C27: after a startup in which a first frame did not load or a folder was
\* missing, the sequences are empty and the fallback image is the texture, and
\* no iteration of the loop loads a frame, composes, updates the texture or
\* computes the index modulo the length.
C27_FallbackStopsTheStream ==
    render.startupFailed =>
        /\ render.sequenceLength = 0
        /\ render.shown = "fallback"
        /\ render.tick.loads = 0
        /\ ~render.tick.composed
        /\ ~render.tick.textureUpdated
        /\ ~render.tick.modulo

C27_Witness ==
    /\ render.startupFailed
    /\ render.tick.iterated
    /\ render.tick.elapsed

\* C28: over the life of the renderer its texture and its window are each
\* released at most once; the cleanup() of the destructor, which follows the
\* cleanup() at the end of main, releases nothing.
C28_ReleasedAtMostOnce ==
    /\ renderer.textureReleases <= 1
    /\ renderer.windowReleases <= 1

\* C29: for an image of width and height at least 1 and any camera name,
\* declared or not, the crop rectangle has a positive width and height and
\* lies inside the image, and the call does not fall back to the original
\* image.
C29_CropRectangleValid ==
    crop.computed =>
        /\ ~crop.fallback
        /\ crop.rect.width > 0
        /\ crop.rect.height > 0
        /\ crop.rect.x >= 0
        /\ crop.rect.y >= 0
        /\ crop.rect.x + crop.rect.width <= crop.size[1]
        /\ crop.rect.y + crop.rect.height <= crop.size[2]

C29_Witness ==
    /\ crop.computed
    /\ crop.name = Undeclared
    /\ crop.size = <<1, 1>>
    /\ crop.rect.width = 1

\* C30: no pixel of the vehicle placeholder, its outline included, is a pixel
\* the compositor writes: all of them are within the inner radius of 80
\* pixels around the centre of the canvas.
C30_CarInsideInnerRadius ==
    car.checked => ~(car.drawn /\ car.inRing)

C30_Witness ==
    /\ car.checked
    /\ car.drawn
    /\ car.x = CarRect.x - OutlineReach
    /\ car.y = CarRect.y - OutlineReach

====
